---- MODULE Spec2Model ----
(***************************************************************************)
(* Turn resolution of the carrier-war server.                              *)
(*                                                                         *)
(*   - server/schemas.py        Position, UnitState, CarrierState,         *)
(*                              SquadronState                              *)
(*   - server/services/hexmap.py  HexArray.gradient_field,                 *)
(*                              HexArray.neighbors_by_gradient             *)
(*   - server/services/turn.py  next_step, scaled_damage,                  *)
(*                              GameBord.turn_forward                      *)
(*   - server/services/match.py MatchStore.submit_orders and the turn      *)
(*                              resolution it runs under the match lock    *)
(*                                                                         *)
(* A position is a pair <<x, y>> of offset coordinates.  The board of      *)
(* GameBord holds one carrier and one squadron per side, in the order of   *)
(* units_list (side A first, the carrier before its squadron).             *)
(***************************************************************************)
EXTENDS Integers, Sequences, FiniteSets, TLC

\* ------------------------------------------------------------------------
\* Bounds of the model
\* ------------------------------------------------------------------------
\* turn_forward is called at most this many times
MaxCalls == 3
\* submit_orders is called at most this many times
MaxSubmits == 4
\* the tick loop is not followed beyond this virtual time
MaxTime == 2000
\* the turns of a match played by requests that do not overlap
MaxTurns == 5
\* the coordinates of the positions distances are taken between run from
\* -MaxCoord to MaxCoord
MaxCoord == 2
\* the maps whose sea is tested for connectivity are MaxWidth cells wide
MaxWidth == 3
\* the blobs of land a map generator places in one attempt
MaxBlobs == 2
\* the maps gradient_field is called on have at most this many cells of land
MaxLand == 3

\* ------------------------------------------------------------------------
\* Constants of the program
\* ------------------------------------------------------------------------
INF == 100000000
SQUAD_MAX_HP == 40
CARRIER_MAX_HP == 100
VISION_SQUADRON == 5
VISION_CARRIER == 4
CARRIER_SPEED == 2
SQUADRON_SPEED == 4
AA_BASE == 20
ATTACK_BASE == 25
TICK_SCALE == 1000
max_turn == 30
SQUADRON_RANGE == 22
MATCH_VISION_SQUADRON == 3
STRIKE_BASE == 18
ttl_reset == 3
MARKER_TTL == 3
VISIBLE_TTL == 3
SHOW_TURNS == 3
max_expand == 4000
UNREACHED == 1000000000
MAX_ATTEMPTS == 60
MAX_RAD == 3
REVALIDATIONS == 10

\* Python's None, for an optional Position and for an optional result
NONE == <<-9, -9>>
NoResult == "None"

\* ------------------------------------------------------------------------
\* State of GameBord (turn.py)
\* ------------------------------------------------------------------------
VARIABLES
    hexmap,       \* GameBord.hexmap: rows of cells, 0 is sea, else land;
                  \* hexmap[y + 1][x + 1] is the cell (x, y)
    units,        \* GameBord.units_list: id -> [pos, hp, target, state]
    ticks,        \* UnitHolder.ticks
    next_time,    \* UnitHolder.next_time
    tick_queue,   \* the units in tick_queue (each under the key next_time)
    turn,         \* GameBord.turn
    result,       \* GameBord.result
    pc,           \* "idle": no call in progress; "tick": inside the tick loop
    raised,       \* the last call of turn_forward ended with a ValueError
    calls,        \* the calls of turn_forward made so far
    before,       \* history: units, turn and result when the last call began
    hindered,     \* history: the units that, in the last call, were held by
                  \* an attack or a landing or found their first choice of
                  \* cell taken
    ledger,       \* UnitHolder.intel: unit id -> the positions it was seen
                  \* on by the enemy in this turn, in the order of the times
    reports,      \* GameBord.intel: side -> [turn, intel], intel the
                  \* IntelPath [turn, p1, p2] of each unit id, or None
    changes,      \* history: the <<id, from, to>> of every assignment that
                  \* changed the state of a squadron in the last call
    strikes,      \* history: squadron -> the attacks it made on a carrier
                  \* since its last launch
    sightings,    \* history: unit id -> the <<time, pos>> of the passes of
                  \* the tick loop of this turn after which it was active
                  \* and within the vision of an active enemy unit
    match,        \* the Match of MatchStore._matches (match.py)
    lock,         \* Match.lock: the thread holding it, or Free
    thr,          \* thread -> its position in submit_orders and its locals
    submits,      \* the calls of submit_orders made so far
    stores,       \* history: side -> the orders stored for it so far
    resolutions,  \* history: the turn resolutions run so far
    unsighted,    \* history: side -> the intel updates of the match without
                  \* a sighting since its last sighting, Never before one
    entry,        \* history: the match as it was when the lock was entered
    observed,     \* history: None, or Some([viewer, payload]) returned by a
                  \* state() call made while the lock was held
    player_intel, \* Session.player_intel_carrier, player_intel_squadrons
    quiet,        \* history: marker -> the updates without a sighting since
                  \* the last sighting, Never before the first one
    enemy_memory, \* Session.enemy_memory.carrier_last_seen: None or a marker
    unseen,       \* history: the session steps without a sighting of the
                  \* player carrier since its last sighting, Never before one
    args,         \* the arguments of a call of a function
    ret,          \* the value the call returned, None before it returns
    gen           \* the run of a map generator: its function, the attempts
                  \* begun, the map it made last and where it stands

\* the state of GameBord and the state of the match store
bvars == <<hexmap, units, ticks, next_time, tick_queue, turn, result, pc,
           raised, calls, before, hindered, ledger, reports, changes,
           strikes, sightings>>

mvars == <<match, lock, thr, submits, stores, resolutions, unsighted, entry,
           observed>>

\* the intel memory of a session and the call of a function
svars == <<player_intel, quiet, enemy_memory, unseen>>

fvars == <<args, ret, gen>>

\* what an action on the board, on the match, on the session or a call of
\* a function leaves alone
offboard == <<mvars, svars, fvars>>

offmatch == <<bvars, svars, fvars>>

offsession == <<bvars, mvars, fvars>>

offcall == <<bvars, mvars, svars>>

vars == <<hexmap, units, ticks, next_time, tick_queue, turn, result, pc,
          raised, calls, before, hindered, ledger, reports, changes,
          strikes, sightings, match, lock, thr, submits,
          stores, resolutions, unsighted, entry, observed, player_intel,
          quiet, enemy_memory, unseen, args, ret, gen>>

\* ------------------------------------------------------------------------
\* The hex maps boards are built on
\* ------------------------------------------------------------------------
\* four by two, the land cell in the corner next to side B's carrier
NearMap == << <<0, 0, 0, 1>>,
              <<0, 0, 0, 0>> >>

\* eight by two: the carriers start out of each other's sight
FarMap == << <<0, 0, 0, 0, 0, 0, 0, 1>>,
             <<0, 0, 0, 0, 0, 0, 0, 0>> >>

\* seven by two, sea within two cells of both corners where the carriers of a
\* match start (_carve_sea)
MatchMap == << <<0, 0, 0, 1, 0, 0, 0>>,
               <<0, 0, 0, 0, 0, 0, 0>> >>

\* five by three, a wall of land between two seas
SplitMap == << <<0, 0, 1, 0, 0>>,
               <<0, 0, 1, 0, 0>>,
               <<0, 1, 1, 0, 0>> >>

\* twenty-four by two: cells lie beyond the range of a squadron
LongMap ==
    << <<0, 0, 0, 1, 0, 0, 0, 0, 0, 0, 0, 0, 0, 0, 0, 0, 0, 0, 0, 0, 0, 0, 0,
         0>>,
       <<0, 0, 0, 0, 0, 0, 0, 0, 0, 0, 0, 0, 0, 0, 0, 0, 0, 0, 0, 0, 0, 0, 0,
         0>> >>

Maps == {NearMap, FarMap, MatchMap, SplitMap, LongMap}

CellsOf(m) == {<<x, y>> : x \in 0 .. Len(m[1]) - 1, y \in 0 .. Len(m) - 1}

H == Len(hexmap)
W == Len(hexmap[1])

Cells == CellsOf(hexmap)

get(x, y) == hexmap[y + 1][x + 1]

in_bounds(p) == 0 <= p[1] /\ p[1] < W /\ 0 <= p[2] /\ p[2] < H

SeaCells == {c \in Cells : get(c[1], c[2]) = 0}

\* ------------------------------------------------------------------------
\* Position (schemas.py)
\* ------------------------------------------------------------------------
invalid == <<-1, -1>>

is_valid(p) == p[1] >= 0 /\ p[2] >= 0

Abs(n) == IF n < 0 THEN -n ELSE n

Max2(a, b) == IF a >= b THEN a ELSE b

Min2(a, b) == IF a <= b THEN a ELSE b

\* q = col - ((row - (row & 1)) >> 1), r = row
offset_to_axial(col, row) == <<col - ((row - (row % 2)) \div 2), row>>

\* x = q, z = r, y = -x - z
axial_to_cube(q, r) == <<q, -q - r, r>>

\* the distance along the first cube axis alone
cube_distance_x(a, b) == Abs(a[1] - b[1])

cube_distance(a, b) ==
    Max2(Abs(a[1] - b[1]), Max2(Abs(a[2] - b[2]), Abs(a[3] - b[3])))

hex_distance(p1, p2) ==
    LET a == offset_to_axial(p1[1], p1[2])
        b == offset_to_axial(p2[1], p2[2])
    IN  cube_distance(axial_to_cube(a[1], a[2]), axial_to_cube(b[1], b[2]))

\* the six neighbours by the delta table of the even rows alone
offset_neighbors_even(p) ==
    LET x == p[1]
        y == p[2]
    IN  << <<x + 1, y>>, <<x, y - 1>>, <<x - 1, y - 1>>,
           <<x - 1, y>>, <<x - 1, y + 1>>, <<x, y + 1>> >>

\* the six neighbours in the order of the parity-dependent delta tables
offset_neighbors(p) ==
    LET x == p[1]
        y == p[2]
    IN  IF y % 2 = 1
        THEN << <<x + 1, y>>, <<x + 1, y - 1>>, <<x, y - 1>>,
                <<x - 1, y>>, <<x, y + 1>>, <<x + 1, y + 1>> >>
        ELSE << <<x + 1, y>>, <<x, y - 1>>, <<x - 1, y - 1>>,
                <<x - 1, y>>, <<x - 1, y + 1>>, <<x, y + 1>> >>

NbrSet(p) == {offset_neighbors(p)[i] : i \in 1 .. 6}

\* Position.__lt__: order of the (x, y) tuples
pos_lt(p1, p2) == p1[1] < p2[1] \/ (p1[1] = p2[1] /\ p1[2] < p2[2])

\* ------------------------------------------------------------------------
\* HexArray (hexmap.py)
\* ------------------------------------------------------------------------
\* the operators of this section take the map m they work on (self)
passable(m, p, ignore_land) ==
    /\ p \in CellsOf(m)
    /\ (ignore_land \/ m[p[2] + 1][p[1] + 1] = 0)

\* breadth-first wave of gradient_field: cells first reached at distance d + 1
RECURSIVE Wave(_, _, _, _, _)
Wave(m, dist, frontier, d, ignore_land) ==
    IF frontier = {}
    THEN dist
    ELSE LET nxt == {n \in CellsOf(m) :
                        /\ dist[n] = INF
                        /\ passable(m, n, ignore_land)
                        /\ \E c \in frontier : n \in NbrSet(c)}
         IN  Wave(m, [c \in CellsOf(m) |-> IF c \in nxt THEN d + 1
                                                        ELSE dist[c]],
                  nxt, d + 1, ignore_land)

\* gradient_field(goal, ignore_land, stop_range = 0): distance of every cell
\* to the goal over passable cells, INF where the wave never arrives
gradient_field(m, goal, ignore_land) ==
    IF passable(m, goal, ignore_land)
    THEN Wave(m, [c \in CellsOf(m) |-> IF c = goal THEN 0 ELSE INF], {goal},
              0, ignore_land)
    ELSE [c \in CellsOf(m) |-> INF]

\* the fields of all goals on the maps, computed once
FieldTable ==
    [m \in Maps |->
        [il \in BOOLEAN |-> [g \in CellsOf(m) |-> gradient_field(m, g, il)]]]

\* the field of the board's map
Field(goal, ignore_land) ==
    IF goal \in Cells
    THEN FieldTable[hexmap][ignore_land][goal]
    ELSE [c \in Cells |-> INF]

\* angle_to: the direction atan2(dy, dx) as the vector it is the angle of;
\* atan2(0, 0) is 0, the angle of (1, 0)
angle_to(p, other) ==
    IF other = p THEN <<1, 0>> ELSE <<other[1] - p[1], other[2] - p[2]>>

\* Signed square of the cosine of the angle between u and v, times |u|^2 and
\* scaled by m, the squared length of the other candidate.  The deviation
\* delta = abs((a - base_angle + pi) % (2 * pi) - pi) lies in [0, pi] and is
\* the smaller the larger this cosine.
Dot(u, v) == u[1] * v[1] + u[2] * v[2]

SignedSq(n, m) == IF n >= 0 THEN n * n * m ELSE -(n * n * m)

\* delta of neighbour n1 is smaller than delta of neighbour n2
delta_lt(start, goal, n1, n2) ==
    LET u  == angle_to(start, goal)
        v1 == angle_to(n1, goal)
        v2 == angle_to(n2, goal)
    IN  SignedSq(Dot(u, v1), Dot(v2, v2)) > SignedSq(Dot(u, v2), Dot(v1, v1))

\* order of the tuples (d, delta, npos) sorted by neighbors_by_gradient
grad_lt(dist, start, goal, n1, n2) ==
    \/ dist[n1] < dist[n2]
    \/ /\ dist[n1] = dist[n2]
       /\ \/ delta_lt(start, goal, n1, n2)
          \/ /\ ~delta_lt(start, goal, n2, n1)
             /\ pos_lt(n1, n2)

\* list.sort() of the tuples: insertion of one neighbour into a sorted list
RECURSIVE InsertSorted(_, _, _, _, _)
InsertSorted(sorted, n, dist, start, goal) ==
    IF sorted = <<>>
    THEN <<n>>
    ELSE IF grad_lt(dist, start, goal, n, Head(sorted))
         THEN <<n>> \o sorted
         ELSE <<Head(sorted)>>
              \o InsertSorted(Tail(sorted), n, dist, start, goal)

RECURSIVE SortByGradient(_, _, _, _)
SortByGradient(nb, dist, start, goal) ==
    IF nb = <<>>
    THEN <<>>
    ELSE InsertSorted(SortByGradient(Tail(nb), dist, start, goal),
                      Head(nb), dist, start, goal)

\* the in-bounds neighbours left in the order of the delta table
neighbors_unsorted(start, goal, ignore_land) ==
    SelectSeq(offset_neighbors(start), in_bounds)

\* neighbors_by_gradient: the in-bounds neighbours of start, nearest to the
\* goal first (land cells are kept: they come last with distance INF)
neighbors_by_gradient(start, goal, ignore_land) ==
    SortByGradient(SelectSeq(offset_neighbors(start), in_bounds),
                   Field(goal, ignore_land), start, goal)

\* ------------------------------------------------------------------------
\* Units (schemas.py) and the board of GameBord (turn.py)
\* ------------------------------------------------------------------------
\* Python's None for an optional dict or marker, and a value that is there
None == <<>>

Some(v) == <<v>>

\* units_list: side A then side B, the carrier before the squadron
UnitOrder == <<"CA", "SA", "CB", "SB">>

Ids == {UnitOrder[i] : i \in 1 .. Len(UnitOrder)}

Sides == {"A", "B"}

SideOrder == <<"A", "B">>

side_of(id) == IF id \in {"CA", "SA"} THEN "A" ELSE "B"

IsCarrier(id) == id \in {"CA", "CB"}

IsSquadron(id) == ~IsCarrier(id)

Carriers == {id \in Ids : IsCarrier(id)}

Squadrons == {id \in Ids : IsSquadron(id)}

CarrierOf(sd) == IF sd = "A" THEN "CA" ELSE "CB"

SquadronOf(sd) == IF sd = "A" THEN "SA" ELSE "SB"

Other(sd) == IF sd = "A" THEN "B" ELSE "A"

speed(id) == IF IsCarrier(id) THEN CARRIER_SPEED ELSE SQUADRON_SPEED

vision(id) == IF IsCarrier(id) THEN VISION_CARRIER ELSE VISION_SQUADRON

max_hp(id) == IF IsCarrier(id) THEN CARRIER_MAX_HP ELSE SQUAD_MAX_HP

Airborne == {"outbound", "engaging", "returning"}

SquadronStates == {"base", "outbound", "engaging", "returning", "lost"}

\* UnitState.is_active, with the override of SquadronState; a carrier has
\* no lifecycle state and carries the value "carrier" in that field
is_active(us, id) ==
    /\ us[id].hp > 0
    /\ us[id].pos[1] >= 0
    /\ us[id].pos[2] >= 0
    /\ (IsSquadron(id) => us[id].state \notin {"lost", "base"})

\* UnitState.hex_distance between two units: INF unless both are active
unit_distance(us, a, b) ==
    IF is_active(us, a) /\ is_active(us, b)
    THEN hex_distance(us[a].pos, us[b].pos)
    ELSE INF

can_see_enemy(us, a, enemy) == unit_distance(us, a, enemy) <= vision(a)

\* ------------------------------------------------------------------------
\* turn.py: next_step and scaled_damage
\* ------------------------------------------------------------------------
RECURSIVE FirstFree(_, _)
FirstFree(us, cand) ==
    IF cand = <<>>
    THEN NONE
    ELSE IF \A ou \in Ids : ~is_active(us, ou) \/ Head(cand) # us[ou].pos
         THEN Head(cand)
         ELSE FirstFree(us, Tail(cand))

\* the first neighbour in gradient order, whoever stands on it
next_step_onto(us, current, target, ignore_land) ==
    LET cand == neighbors_by_gradient(current, target, ignore_land)
    IN  IF cand = <<>> THEN NONE ELSE Head(cand)

\* the first neighbour, in gradient order, that no active unit stands on
next_step(us, current, target, ignore_land) ==
    FirstFree(us, neighbors_by_gradient(current, target, ignore_land))

\* Python's round() of the fraction n / d (d > 0): nearest, ties to even
RoundHalfEven(n, d) ==
    LET q == n \div d
        r == n % d
    IN  IF 2 * r > d \/ (2 * r = d /\ q % 2 = 1) THEN q + 1 ELSE q

\* variance = round(base * 0.2)
variance(base) == RoundHalfEven(base, 5)

\* scaled_damage, with the value drawn by random.randint(-variance, variance)
scaled_damage(hp, mhp, base, roll) ==
    LET scaled == Min2(mhp, Max2(0, hp))
        raw    == base + (IF variance(base) = 0 THEN 0 ELSE roll)
    IN  Max2(0, RoundHalfEven(raw * scaled, mhp))

\* the draws of random.randint(-v, v) that the model follows
Rolls(v) == {-v, 0, v}

\* ------------------------------------------------------------------------
\* GameBord.turn_forward, in the order of its phases.  The operators below
\* work on a record b of the holders' fields:
\*   b.us   unit id -> [pos, hp, target, state]       (UnitHolder.unit)
\*   b.tk   unit id -> steps taken in this turn       (UnitHolder.ticks)
\*   b.nt   unit id -> virtual time of the next step  (UnitHolder.next_time)
\*   b.q    the units waiting in tick_queue, each under the key b.nt
\*   b.il   unit id -> the positions it was seen on    (UnitHolder.intel)
\*   b.hd   the units held or turned aside so far (history, never read)
\*   b.ch   the state changes of squadrons so far (history, never read)
\*   b.sk   squadron -> its attacks since its launch (history, never read)
\* ------------------------------------------------------------------------
NoOrder == [carrier_target |-> NONE, launch_target |-> NONE]

NoLaunch == <<NONE, NONE>>

\* an order target the checks of turn_forward accept
TargetOk(t) == in_bounds(t) /\ get(t[1], t[2]) = 0

\* the loop over the orders' carrier targets: each side's target is checked
\* and stored before the next side is looked at.  Returns the units and
\* whether a ValueError was raised.
RECURSIVE ApplyCarrierTargets(_, _, _)
ApplyCarrierTargets(us, ords, i) ==
    IF i > Len(SideOrder)
    THEN [us |-> us, raised |-> FALSE]
    ELSE LET t == ords[i].carrier_target
         IN  IF t = NONE
             THEN ApplyCarrierTargets(us, ords, i + 1)
             ELSE IF ~TargetOk(t)
                  THEN [us |-> us, raised |-> TRUE]
                  ELSE ApplyCarrierTargets(
                           [us EXCEPT ![CarrierOf(SideOrder[i])].target = t],
                           ords, i + 1)

\* the enemy carrier an airborne squadron stands next to, or "none"
\* (hex_distance < 1.5 between the two positions)
AdjacentEnemyCarrier(us, id) ==
    LET ec == CarrierOf(Other(side_of(id)))
    IN  IF is_active(us, ec) /\ hex_distance(us[id].pos, us[ec].pos) <= 1
        THEN ec
        ELSE "none"

Engaging(us, id) ==
    IsSquadron(id) /\ is_active(us, id) /\ us[id].state = "engaging"

\* pre-tick engagement of one unit; ra and rd are the draws of the
\* anti-air and of the attack damage
Engage(b, id, ra, rd) ==
    IF ~Engaging(b.us, id)
    THEN b
    ELSE LET us == b.us
             ec == AdjacentEnemyCarrier(us, id)
         IN  IF ec = "none"
             THEN [b EXCEPT !.us[id].state = "returning",
                            !.ch = b.ch \cup {<<id, "engaging", "returning">>}]
             ELSE LET aa   == scaled_damage(us[ec].hp, max_hp(ec), AA_BASE, ra)
                      dmg  == scaled_damage(us[id].hp, max_hp(id),
                                            ATTACK_BASE, rd)
                      ehp  == Max2(0, us[ec].hp - dmg)
                      uhp  == Max2(0, us[id].hp - aa)
                      car  == IF ehp <= 0
                              THEN [us[ec] EXCEPT !.hp = ehp, !.target = NONE,
                                                  !.pos = invalid]
                              ELSE [us[ec] EXCEPT !.hp = ehp]
                      shot == IF uhp <= 0
                              THEN [us[id] EXCEPT !.hp = uhp, !.state = "lost",
                                                  !.pos = invalid,
                                                  !.target = NONE]
                              ELSE [us[id] EXCEPT !.hp = uhp]
                      \* the assignment after the if/else runs in every case
                      sq   == [shot EXCEPT !.state = "returning"]
                  IN  [b EXCEPT !.us = [us EXCEPT ![ec] = car, ![id] = sq],
                                !.tk = [b.tk EXCEPT ![id] = speed(id),
                                                    ![ec] = speed(ec)],
                                !.hd = b.hd \cup {id, ec},
                                !.ch = b.ch \cup
                                   (IF uhp <= 0
                                    THEN {<<id, "engaging", "lost">>,
                                          <<id, "lost", "returning">>}
                                    ELSE {<<id, "engaging", "returning">>}),
                                !.sk = [b.sk EXCEPT ![id] = @ + 1]]

\* the engagement loop over units_list; rolls[id] = <<ra, rd>>
RECURSIVE EngageAll(_, _, _)
EngageAll(b, rolls, i) ==
    IF i > Len(UnitOrder)
    THEN b
    ELSE LET id == UnitOrder[i]
         IN  EngageAll(Engage(b, id, rolls[id][1], rolls[id][2]), rolls, i + 1)

\* every active unit with steps left is queued at int(1000 / speed)
FillQueue(b) ==
    LET go == {id \in Ids : is_active(b.us, id) /\ b.tk[id] < speed(id)}
    IN  [b EXCEPT !.nt = [id \in Ids |-> IF id \in go
                                          THEN TICK_SCALE \div speed(id)
                                          ELSE b.nt[id]],
                  !.q = go]

\* movement of one unit taken from the queue
MoveOne(b, id) ==
    LET us == b.us
        u  == us[id]
    IN  IF ~(u.target # NONE /\ u.pos # u.target /\ b.tk[id] < speed(id))
        THEN b
        ELSE LET cu      == CarrierOf(side_of(id))
                 homing  == IsSquadron(id) /\ u.state = "returning"
                 landing == homing /\ hex_distance(us[cu].pos, u.pos) <= 1
             IN  IF landing
                 THEN [b EXCEPT !.us[id] = [u EXCEPT !.state = "base",
                                                     !.pos = invalid,
                                                     !.target = NONE],
                                !.tk = [b.tk EXCEPT ![id] = speed(id),
                                                    ![cu] = speed(cu)],
                                !.hd = b.hd \cup {cu},
                                !.ch = b.ch \cup {<<id, "returning", "base">>}]
                 ELSE LET tgt  == IF homing THEN us[cu].pos ELSE u.target
                          us1  == [us EXCEPT ![id].target = tgt]
                          nbs  == neighbors_by_gradient(u.pos, tgt,
                                                        IsSquadron(id))
                          np   == next_step(us1, u.pos, tgt, IsSquadron(id))
                          us2  == IF np # NONE
                                  THEN [us1 EXCEPT ![id].pos = np]
                                  ELSE us1
                          tk2  == IF np # NONE
                                  THEN [b.tk EXCEPT ![id] = @ + 1]
                                  ELSE b.tk
                          more == tk2[id] < speed(id)
                      IN  [us |-> us2,
                           tk |-> tk2,
                           nt |-> IF more
                                  THEN [b.nt EXCEPT
                                           ![id] = @ + TICK_SCALE \div speed(id)]
                                  ELSE b.nt,
                           q  |-> IF more THEN b.q \cup {id} ELSE b.q,
                           il |-> b.il,
                           hd |-> IF nbs = <<>> \/ np # Head(nbs)
                                  THEN b.hd \cup {id}
                                  ELSE b.hd,
                           ch |-> b.ch,
                           sk |-> b.sk]

\* the movement loop over the shuffled units of one queue entry
RECURSIVE MoveAll(_, _, _)
MoveAll(b, shuffled, i) ==
    IF i > Len(shuffled)
    THEN b
    ELSE MoveAll(MoveOne(b, shuffled[i]), shuffled, i + 1)

\* detection pass: an outbound squadron that sees the enemy carrier takes the
\* carrier's cell as its target
Detect(us) ==
    [id \in Ids |->
        LET ec == CarrierOf(Other(side_of(id)))
        IN  IF /\ IsSquadron(id)
               /\ us[id].state = "outbound"
               /\ is_active(us, ec)
               /\ can_see_enemy(us, id, ec)
            THEN [us[id] EXCEPT !.target = us[ec].pos]
            ELSE us[id]]

\* the ledgers that forget what they held when they take a position
RecordLatest(il, us) ==
    [e \in Ids |->
        IF /\ is_active(us, e)
           /\ \E u \in Ids : side_of(u) # side_of(e) /\ can_see_enemy(us, u, e)
        THEN <<us[e].pos>>
        ELSE il[e]]

\* detection pass: the position of every active unit that an enemy unit
\* sees goes into its ledger under the time of the pass, which is later
\* than every time in the ledger
Record(il, us) ==
    [e \in Ids |->
        IF /\ is_active(us, e)
           /\ \E u \in Ids : side_of(u) # side_of(e) /\ can_see_enemy(us, u, e)
        THEN Append(il[e], us[e].pos)
        ELSE il[e]]

\* the orders in which random.shuffle can leave the units of a set
Shuffles(S) ==
    {f \in [1 .. Cardinality(S) -> S] :
        \A i, j \in 1 .. Cardinality(S) : i # j => f[i] # f[j]}

MinTime(b) == CHOOSE t \in {b.nt[id] : id \in b.q} :
                  \A id \in b.q : t <= b.nt[id]

\* one pass of the while loop: pop the earliest entry, move, detect
TickOnce(b, shuffled) ==
    LET popped == [b EXCEPT !.q = b.q \ {shuffled[i] : i \in 1 .. Len(shuffled)}]
        moved  == MoveAll(popped, shuffled, 1)
    IN  [moved EXCEPT !.us = Detect(moved.us),
                      !.il = Record(moved.il, moved.us)]

\* a post-tick resolution that sends a returning squadron next to an enemy
\* carrier into the attack again
PostTickOne_again(us, id) ==
    IF ~(IsSquadron(id) /\ is_active(us, id)
         /\ us[id].state \in {"outbound", "returning"})
    THEN us
    ELSE IF AdjacentEnemyCarrier(us, id) # "none"
         THEN [us EXCEPT ![id].state = "engaging"]
         ELSE IF us[id].pos = us[id].target /\ us[id].state = "outbound"
              THEN [us EXCEPT ![id].target = us[CarrierOf(side_of(id))].pos,
                              ![id].state = "returning"]
              ELSE us

\* post-tick resolution of one unit
PostTickOne(us, id) ==
    IF ~(IsSquadron(id) /\ is_active(us, id) /\ us[id].state = "outbound")
    THEN us
    ELSE IF AdjacentEnemyCarrier(us, id) # "none"
         THEN [us EXCEPT ![id].state = "engaging"]
         ELSE IF us[id].pos = us[id].target
              THEN [us EXCEPT ![id].target = us[CarrierOf(side_of(id))].pos,
                              ![id].state = "returning"]
              ELSE us

RECURSIVE PostTickAll(_, _)
PostTickAll(us, i) ==
    IF i > Len(UnitOrder)
    THEN us
    ELSE PostTickAll(PostTickOne(us, UnitOrder[i]), i + 1)

\* launch of one side: the first squadron in state base is put on the first
\* free cell next to the carrier, in gradient order towards the target
LaunchSide(us, sd, t) ==
    LET sq == SquadronOf(sd)
        lp == us[CarrierOf(sd)].pos
        np == next_step(us, lp, t, TRUE)
    IN  IF us[sq].state = "base" /\ np # NONE
        THEN [us EXCEPT ![sq].pos = np, ![sq].state = "outbound",
                        ![sq].target = t]
        ELSE us

\* the launch loop over the orders; a bad target raises ValueError after the
\* sides before it have launched
RECURSIVE LaunchAll(_, _, _)
LaunchAll(us, ords, i) ==
    IF i > Len(SideOrder)
    THEN [us |-> us, raised |-> FALSE]
    ELSE LET t == ords[i]
         IN  IF t = NONE
             THEN LaunchAll(us, ords, i + 1)
             ELSE IF ~TargetOk(t)
                  THEN [us |-> us, raised |-> TRUE]
                  ELSE LaunchAll(LaunchSide(us, SideOrder[i], t), ords, i + 1)

\* _get_carrier_by_side: the summed hp of the side's carriers and squadrons
carrier_hp(us, sd) == us[CarrierOf(sd)].hp

squadron_hp(us, sd) == us[SquadronOf(sd)].hp

\* the termination check with the winner of a sinking taken for the loser
DecideForTheSunk(us, t, res) ==
    LET ac == carrier_hp(us, "A")
        bc == carrier_hp(us, "B")
    IN  IF ac <= 0 /\ bc <= 0 THEN "draw"
        ELSE IF bc <= 0 THEN "B"
        ELSE IF ac <= 0 THEN "A"
        ELSE IF t > max_turn
             THEN IF ac > bc THEN "A"
                  ELSE IF bc > ac THEN "B"
                  ELSE "draw"
        ELSE res

\* the termination check without the rule of the turn ceiling
DecideWithoutCeiling(us, t, res) ==
    LET ac == carrier_hp(us, "A")
        bc == carrier_hp(us, "B")
        as == squadron_hp(us, "A")
        bs == squadron_hp(us, "B")
    IN  IF ac <= 0 /\ bc <= 0 THEN "draw"
        ELSE IF bc <= 0 THEN "A"
        ELSE IF ac <= 0 THEN "B"
        ELSE IF as > 0 /\ bs <= 0 THEN "A"
        ELSE IF bs > 0 /\ as <= 0 THEN "B"
        ELSE res

\* the termination check at the end of turn_forward
Decide(us, t, res) ==
    LET ac == carrier_hp(us, "A")
        bc == carrier_hp(us, "B")
        as == squadron_hp(us, "A")
        bs == squadron_hp(us, "B")
    IN  IF ac <= 0 /\ bc <= 0 THEN "draw"
        ELSE IF bc <= 0 THEN "A"
        ELSE IF ac <= 0 THEN "B"
        ELSE IF as > 0 /\ bs <= 0 THEN "A"
        ELSE IF bs > 0 /\ as <= 0 THEN "B"
        ELSE IF t > max_turn
             THEN IF ac > bc THEN "A"
                  ELSE IF bc > ac THEN "B"
                  ELSE "draw"
        ELSE res

\* ------------------------------------------------------------------------
\* Inputs
\* ------------------------------------------------------------------------
Board == [us |-> units, tk |-> ticks, nt |-> next_time, q |-> tick_queue,
          il |-> ledger, hd |-> hindered, ch |-> changes, sk |-> strikes]

\* what a caller can compare after a call: the units, the turn, the result
\* and the reports
Snapshot == [units |-> units, turn |-> turn, result |-> result,
             reports |-> reports]

\* the holders and the reports of a new board: self.intel = {A: IntelReport(
\* turn = 0), B: IntelReport(turn = 0)}
NoLedger == [id \in Ids |-> <<>>]

NoSightings == [id \in Ids |-> {}]

NewBoard ==
    /\ ledger = NoLedger
    /\ reports = [sd \in Sides |-> [turn |-> 0, intel |-> [id \in Ids |-> None]]]
    /\ changes = {}
    /\ strikes = [s \in Squadrons |-> 0]
    /\ sightings = NoSightings

\* get_start_position: a random sea cell in a window around the carrier
get_start_position(pos) ==
    LET hrange == (H \div 3) + 1
        wrange == (W \div 3) + 1
    IN  {c \in SeaCells :
            /\ Max2(0, pos[2] - hrange) <= c[2]
            /\ c[2] <= Min2(H - 1, pos[2] + hrange)
            /\ Max2(0, pos[1] - wrange) <= c[1]
            /\ c[1] <= Min2(W - 1, pos[1] + wrange)}

\* ------------------------------------------------------------------------
\* GameBord.__init__: a board on map m with the carriers at pa and pb, the
\* units built with hp hpc and hps; draws are the cells the random choices
\* of get_start_position followed by the model end on
\* ------------------------------------------------------------------------
Construct(m, pa, pb, hpc, hps, draws) ==
    /\ hexmap = m
    /\ \E ta \in get_start_position(pa) \cap draws,
          tb \in get_start_position(pb) \cap draws :
          units = [id \in Ids |->
                     IF IsCarrier(id)
                     THEN [pos    |-> IF id = "CA" THEN pa ELSE pb,
                           hp     |-> hpc,
                           target |-> IF id = "CA" THEN ta ELSE tb,
                           state  |-> "carrier"]
                     ELSE [pos    |-> invalid,
                           hp     |-> hps,
                           target |-> NONE,
                           state  |-> "base"]]
    /\ ticks = [id \in Ids |-> 0]
    /\ next_time = [id \in Ids |-> 0]
    /\ tick_queue = {}
    /\ turn = 1
    /\ result = NoResult
    /\ pc = "idle"
    /\ raised = FALSE
    /\ calls = 0
    /\ NewBoard
    /\ before = Snapshot
    /\ hindered = {}

\* ------------------------------------------------------------------------
\* The board late in a game: built with carriers of hp ha and hb that drew
\* their own cells as first targets, after n calls of turn_forward without
\* orders.  Such a call moves nothing, queues the carriers once and only
\* counts the turn.
\* ------------------------------------------------------------------------
Played(m, pa, pb, ha, hb, hps, n) ==
    /\ hexmap = m
    /\ pa \in get_start_position(pa) /\ pb \in get_start_position(pb)
    /\ units = [id \in Ids |->
                  IF IsCarrier(id)
                  THEN [pos    |-> IF id = "CA" THEN pa ELSE pb,
                        hp     |-> IF id = "CA" THEN ha ELSE hb,
                        target |-> IF id = "CA" THEN pa ELSE pb,
                        state  |-> "carrier"]
                  ELSE [pos    |-> invalid,
                        hp     |-> hps,
                        target |-> NONE,
                        state  |-> "base"]]
    /\ ticks = [id \in Ids |-> 0]
    /\ next_time = [id \in Ids |-> IF IsCarrier(id) /\ n > 0
                                   THEN TICK_SCALE \div speed(id) ELSE 0]
    /\ tick_queue = {}
    /\ turn = 1 + n
    /\ result = NoResult
    /\ pc = "idle"
    /\ raised = FALSE
    /\ calls = 0
    /\ NewBoard
    /\ before = Snapshot
    /\ hindered = {}

\* ------------------------------------------------------------------------
\* GameBord.turn_forward
\* ------------------------------------------------------------------------
\* a call with an orders list whose length is not 2: ValueError before
\* anything is touched
TurnForwardBadLength ==
    /\ pc = "idle"
    /\ calls < MaxCalls
    /\ raised' = TRUE
    /\ calls' = calls + 1
    /\ before' = Snapshot
    /\ hindered' = {}
    /\ changes' = {}
    /\ UNCHANGED <<hexmap, units, ticks, next_time, tick_queue, turn, result,
                   pc, ledger, reports, strikes, sightings>>
    /\ UNCHANGED offboard

\* the draws the engagement of a squadron takes: none unless it attacks
RollChoices(us, id) ==
    IF Engaging(us, id) /\ AdjacentEnemyCarrier(us, id) # "none"
    THEN Rolls(variance(AA_BASE)) \X Rolls(variance(ATTACK_BASE))
    ELSE {<<0, 0>>}

\* start of a call: reset of the holders, carrier targets, pre-tick
\* engagement, filling of the tick queue
TurnBegin(ords, rolls) ==
    /\ pc = "idle"
    /\ calls < MaxCalls
    /\ calls' = calls + 1
    /\ before' = Snapshot
    /\ UNCHANGED offboard
    /\ LET zero == [id \in Ids |-> 0]
           ct   == ApplyCarrierTargets(units, ords, 1)
       IN  IF ct.raised
           THEN /\ units' = ct.us
                /\ ticks' = zero
                /\ next_time' = zero
                /\ raised' = TRUE
                /\ hindered' = {}
                /\ ledger' = NoLedger
                /\ changes' = {}
                /\ sightings' = NoSightings
                /\ UNCHANGED <<hexmap, tick_queue, turn, result, pc, reports,
                               strikes>>
           ELSE LET b == FillQueue(EngageAll([us |-> ct.us, tk |-> zero,
                                              nt |-> zero, q |-> {},
                                              il |-> NoLedger, hd |-> {},
                                              ch |-> {}, sk |-> strikes],
                                             rolls, 1))
                IN  /\ units' = b.us
                    /\ ticks' = b.tk
                    /\ next_time' = b.nt
                    /\ tick_queue' = b.q
                    /\ hindered' = b.hd
                    /\ ledger' = b.il
                    /\ changes' = b.ch
                    /\ strikes' = b.sk
                    /\ sightings' = NoSightings
                    /\ UNCHANGED reports
                    /\ pc' = "tick"
                    /\ raised' = FALSE
                    /\ UNCHANGED <<hexmap, turn, result>>

\* the call with the carrier targets the two players chose from ct[1], ct[2]
TurnForward(ct) ==
    \E oa \in ct[1], ob \in ct[2] :
       \E ra \in RollChoices(units, "SA"), rb \in RollChoices(units, "SB") :
          TurnBegin(<<[NoOrder EXCEPT !.carrier_target = oa],
                      [NoOrder EXCEPT !.carrier_target = ob]>>,
                    [id \in Ids |-> IF id = "SA" THEN ra
                                     ELSE IF id = "SB" THEN rb
                                     ELSE <<0, 0>>])

\* the sightings with those of the pass at the time now, which left the
\* units as us
Sighted_at(seen, us, now) ==
    [e \in Ids |->
        IF /\ is_active(us, e)
           /\ \E u \in Ids :
                 /\ side_of(u) # side_of(e)
                 /\ is_active(us, u)
                 /\ hex_distance(us[u].pos, us[e].pos) <= vision(u)
        THEN seen[e] \cup {<<now, us[e].pos>>}
        ELSE seen[e]]

\* one pass of the tick loop
TickPop ==
    /\ pc = "tick"
    /\ tick_queue # {}
    /\ MinTime(Board) <= MaxTime
    /\ LET now == {id \in tick_queue : next_time[id] = MinTime(Board)}
       IN  \E shuffled \in Shuffles(now) :
              LET b == TickOnce(Board, shuffled)
              IN  /\ units' = b.us
                  /\ ticks' = b.tk
                  /\ next_time' = b.nt
                  /\ tick_queue' = b.q
                  /\ hindered' = b.hd
                  /\ ledger' = b.il
                  /\ changes' = b.ch
                  /\ strikes' = b.sk
                  /\ sightings' = Sighted_at(sightings, b.us, MinTime(Board))
    /\ UNCHANGED <<hexmap, turn, result, pc, raised, calls, before, reports>>
    /\ UNCHANGED offboard

\* the report of a side: the IntelPath of every active enemy unit with a
\* ledger, from the first to the last position in it
Report(us, il, t, side) ==
    [turn |-> t,
     intel |-> [id \in Ids |->
                  IF side_of(id) # side /\ is_active(us, id) /\ il[id] # <<>>
                  THEN Some([turn |-> t, p1 |-> il[id][1],
                             p2 |-> il[id][Len(il[id])]])
                  ELSE None]]

\* the IntelPaths of the reports reps that are older than three turns, as
\* <<index of the side, index of the unit>> in the order of the loops
Stale(reps, t) ==
    {p \in (1 .. Len(SideOrder)) \X (1 .. Len(UnitOrder)) :
        LET path == reps[SideOrder[p[1]]].intel[UnitOrder[p[2]]]
        IN  path # None /\ path[1].turn < t - 3}

\* the loop over the sides that builds the reports.  Each pass makes the
\* side's report anew, searches the reports in place for stale paths and
\* puts the new report in the place of the side's old one.  The first
\* stale path found is deleted from the dict the loop runs over, which
\* ends the call with a RuntimeError before any report is stored; without
\* a stale path in place at the first pass there is none at the second.
ReportAll(reps, us, il, t) ==
    IF Stale(reps, t) # {}
    THEN LET p == CHOOSE x \in Stale(reps, t) :
                     \A y \in Stale(reps, t) :
                        x[1] < y[1] \/ (x[1] = y[1] /\ x[2] <= y[2])
         IN  [reps |-> [reps EXCEPT
                          ![SideOrder[p[1]]].intel[UnitOrder[p[2]]] = None],
              raised |-> TRUE]
    ELSE [reps |-> [sd \in Sides |-> Report(us, il, t, sd)],
          raised |-> FALSE]

\* after the tick loop: post-tick resolution, launches, termination check.
\* The launch targets of the call's orders are read here for the first time,
\* so this is where the model draws them.
TurnEnd(launch) ==
    /\ pc = "tick"
    /\ tick_queue = {}
    /\ LET la == LaunchAll(PostTickAll(units, 1), launch, 1)
       IN  /\ units' = la.us
           /\ raised' = (la.raised \/ Stale(reports, turn) # {})
           /\ changes' = changes \cup
                 {<<s, units[s].state, la.us[s].state>> :
                     s \in {x \in Squadrons :
                               units[x].state # la.us[x].state}}
           /\ strikes' = [s \in Squadrons |->
                            IF units[s].state = "base"
                               /\ la.us[s].state = "outbound"
                            THEN 0 ELSE strikes[s]]
           /\ IF la.raised
              THEN UNCHANGED <<turn, result, reports>>
              ELSE LET rp == ReportAll(reports, la.us, ledger, turn)
                   IN  /\ reports' = rp.reps
                       /\ IF rp.raised
                          THEN UNCHANGED <<turn, result>>
                          ELSE /\ result' = Decide(la.us, turn, result)
                               /\ turn' = turn + 1
    /\ pc' = "idle"
    /\ UNCHANGED <<hexmap, ticks, next_time, tick_queue, calls, before,
                   hindered, ledger, sightings>>
    /\ UNCHANGED offboard

\* the end of the call with the launch targets chosen from lt[1], lt[2]
TurnForwardEnd(lt) == \E la \in lt[1], lb \in lt[2] : TurnEnd(<<la, lb>>)

\* ------------------------------------------------------------------------
\* Path helpers of session.py, as match.py calls them.  A squadron is named
\* by its id, a player state by its side; st is the function from unit ids
\* to [pos, hp, target, state] made of the two PlayerStates of the match.
\* ------------------------------------------------------------------------
\* no sighting yet
Never == None

\* no unit id: ignore_id = None
NoId == "none"

SeaAt(m, p) == m[p[2] + 1][p[1] + 1] = 0

\* _is_occupied(sess, x, y, ignore_id): me is the side of sess.player_state
_is_occupied(st, me, p, ignore_id) ==
    \/ st[CarrierOf(Other(me))].pos = p
    \/ st[CarrierOf(me)].pos = p
    \/ \E s \in Squadrons :
          /\ side_of(s) = Other(me)
          /\ s # ignore_id
          /\ st[s].pos = p
          /\ st[s].state \notin {"base", "lost"}

\* order of the heap entries (f, g, (x, y))
heap_lt(a, b) ==
    \/ a[1] < b[1]
    \/ /\ a[1] = b[1]
       /\ \/ a[2] < b[2]
          \/ a[2] = b[2] /\ pos_lt(a[3], b[3])

\* the path rebuilt from came_from, start first
RECURSIVE PathTo(_, _)
PathTo(came_from, c) ==
    IF came_from[c] = NONE
    THEN <<c>>
    ELSE Append(PathTo(came_from, came_from[c]), c)

\* the loop of _find_path_hex over the heap; ok are the passable cells
RECURSIVE AStar(_, _, _, _, _, _)
AStar(ok, goal, open_heap, came_from, g_score, closed) ==
    IF open_heap = {}
    THEN None
    ELSE LET e    == CHOOSE a \in open_heap :
                        \A b \in open_heap : a = b \/ heap_lt(a, b)
             c    == e[3]
             rest == open_heap \ {e}
         IN  IF c \in closed
             THEN AStar(ok, goal, rest, came_from, g_score, closed)
             ELSE IF hex_distance(c, goal) <= 0
                  THEN PathTo(came_from, c)
                  ELSE LET tentative == e[2] + 1
                           better == {n \in NbrSet(c) \cap ok :
                                         tentative < g_score[n]}
                       IN  AStar(ok, goal,
                                 rest \cup
                                   {<<tentative + hex_distance(n, goal),
                                      tentative, n>> : n \in better},
                                 [x \in DOMAIN came_from |->
                                    IF x \in better THEN c
                                                    ELSE came_from[x]],
                                 [x \in DOMAIN g_score |->
                                    IF x \in better THEN tentative
                                                    ELSE g_score[x]],
                                 closed \cup {c})

\* the search of _find_path_hex from start over the passable cells ok
SearchFrom(m, ok, start, goal) ==
    IF start \notin ok
    THEN None
    ELSE IF hex_distance(start, goal) <= 0
         THEN <<start>>
         ELSE AStar(ok, goal,
                    {<<hex_distance(start, goal), 0, start>>},
                    [c \in CellsOf(m) |-> NONE],
                    [c \in CellsOf(m) |-> IF c = start THEN 0 ELSE INF],
                    {})

\* _find_path_hex(sess, start, goal, pass_islands, ignore_id,
\* avoid_prev_pos = avoid) with stop_range = 0: the cells from start to goal,
\* or None
_find_path_hex(m, st, me, start, goal, pass_islands, ignore_id, avoid) ==
    SearchFrom(m,
               {c \in CellsOf(m) :
                   /\ pass_islands \/ SeaAt(m, c)
                   /\ c # avoid
                   /\ ~_is_occupied(st, me, c, ignore_id)},
               start, goal)

\* _distance_field_hex(sess, goal, pass_islands) without stop range, cell to
\* avoid or occupancy: the breadth-first wave from the goal over the
\* passable cells
_distance_field_hex(m, goal, pass_islands) ==
    IF goal \in CellsOf(m)
    THEN FieldTable[m][pass_islands][goal]
    ELSE [c \in CellsOf(m) |-> INF]

\* the first entry of least distance: nbrs.sort(key = distance) is stable
RECURSIVE FirstLeast(_, _)
FirstLeast(dist, nbrs) ==
    IF Len(nbrs) = 1
    THEN Head(nbrs)
    ELSE LET r == FirstLeast(dist, Tail(nbrs))
         IN  IF dist[Head(nbrs)] <= dist[r] THEN Head(nbrs) ELSE r

\* the descent of _gradient_full_path from the last cell of path
RECURSIVE Descend(_, _, _)
Descend(m, dist, path) ==
    LET cur  == path[Len(path)]
        nbrs == SelectSeq(offset_neighbors(cur), LAMBDA n : n \in CellsOf(m))
    IN  IF cur \notin CellsOf(m) \/ dist[cur] <= 0 \/ dist[cur] >= INF
           \/ nbrs = <<>>
        THEN path
        ELSE LET n == FirstLeast(dist, nbrs)
             IN  IF dist[n] < dist[cur]
                 THEN Descend(m, dist, Append(path, n))
                 ELSE path

\* _gradient_full_path(sess, start, goal, pass_islands)
_gradient_full_path(m, start, goal, pass_islands) ==
    Descend(m, _distance_field_hex(m, goal, pass_islands), <<start>>)

\* the first entry of greatest distance from the cell away: the sort by
\* descending distance is stable
RECURSIVE FirstFarthest(_, _)
FirstFarthest(away, cand) ==
    IF Len(cand) = 1
    THEN Head(cand)
    ELSE LET r == FirstFarthest(away, Tail(cand))
         IN  IF hex_distance(away, Head(cand)) >= hex_distance(away, r)
             THEN Head(cand)
             ELSE r

\* _find_free_adjacent(sess, carrier cell, prefer_away_from): a free sea
\* neighbour of the carrier, or None
_find_free_adjacent(m, st, me, c, prefer_away_from) ==
    LET candidates ==
            SelectSeq(offset_neighbors(c),
                      LAMBDA n : /\ n \in CellsOf(m)
                                 /\ SeaAt(m, n)
                                 /\ ~_is_occupied(st, me, n, NoId))
    IN  IF candidates = <<>>
        THEN NONE
        ELSE FirstFarthest(prefer_away_from, candidates)

\* _scaled_damage(attacker_hp, base) of session.py, with the value drawn
\* by random.randint(-variance, variance)
_scaled_damage(attacker_hp, base, roll) ==
    LET scaled == Min2(SQUAD_MAX_HP, Max2(0, attacker_hp))
        raw    == base + (IF variance(base) = 0 THEN 0 ELSE roll)
    IN  Max2(0, RoundHalfEven(raw * scaled, SQUAD_MAX_HP))

\* _scaled_aa(player_hp, base) of session.py: the same with the hp of a
\* carrier
_scaled_aa(player_hp, base, roll) ==
    LET scaled == Min2(CARRIER_MAX_HP, Max2(0, player_hp))
        raw    == base + (IF variance(base) = 0 THEN 0 ELSE roll)
    IN  Max2(0, RoundHalfEven(raw * scaled, CARRIER_MAX_HP))

\* ------------------------------------------------------------------------
\* Match (match.py).  A match m is the record
\*   m.status, m.turn, m.map
\*   m.tokens   side -> the slot of that side has a token
\*   m.orders   side -> None or Some(orders)       (PlayerSlot.orders)
\*   m.st       unit id -> [pos, hp, target, state] (a_state, b_state)
\*   m.last_pos_carrier    side -> cell or NONE
\*   m.last_pos_squadrons  squadron -> cell or NONE
\*   m.intel    side -> None or Some([seen, pos, ttl]) (intel_a, intel_b)
\* Each side has one squadron in its hangar.
\* ------------------------------------------------------------------------
\* the explicit vision of the units of _new_player_state
match_vision(id) ==
    IF IsCarrier(id) THEN VISION_CARRIER ELSE MATCH_VISION_SQUADRON

\* _new_player_state(side, cx, cy): the carrier on its cell, the squadron at
\* base
_new_player_state(side, c) ==
    [id \in {CarrierOf(side), SquadronOf(side)} |->
        IF IsCarrier(id)
        THEN [pos |-> c, hp |-> CARRIER_MAX_HP, target |-> NONE,
              state |-> "carrier"]
        ELSE [pos |-> invalid, hp |-> SQUAD_MAX_HP, target |-> NONE,
              state |-> "base"]]

\* _init_world on the map mp: side A's carrier near the first corner, side
\* B's near the last one
_init_world(m, mp) ==
    LET a == _new_player_state("A", <<0, 0>>)
        b == _new_player_state("B", <<Len(mp[1]) - 1, Len(mp) - 1>>)
    IN  [m EXCEPT !.map = mp,
                  !.st = [id \in Ids |-> IF side_of(id) = "A" THEN a[id]
                                                               ELSE b[id]],
                  !.turn = 1,
                  !.intel = [sd \in Sides |-> None]]

\* Match(...): the fields of a new Match
NewMatch ==
    [status |-> "waiting", turn |-> 1, map |-> <<>>,
     tokens |-> [sd \in Sides |-> FALSE],
     orders |-> [sd \in Sides |-> None],
     st |-> <<>>,
     last_pos_carrier |-> [sd \in Sides |-> NONE],
     last_pos_squadrons |-> [sq \in Squadrons |-> NONE],
     intel |-> [sd \in Sides |-> None]]

\* Match.side_for_token: a token is named by the side it was issued for
side_for_token(m, token) ==
    IF token \in Sides /\ m.tokens[token] THEN token ELSE "None"

\* the fields of an order dict; an absent dict has no target
order_target(orders, field) ==
    IF orders = None THEN NONE ELSE orders[1][field]

\* the end of _apply_carrier_move: the carrier goes along the path for as
\* many steps as its speed allows
MoveAlong(m, side, start, path) ==
    IF Len(path) <= 1
    THEN [m |-> m, exc |-> FALSE]
    ELSE [m |-> [m EXCEPT
                   !.last_pos_carrier[side] = start,
                   !.st[CarrierOf(side)].pos =
                      path[Max2(1, Min2(speed(CarrierOf(side)),
                                        Len(path) - 1)) + 1]],
          exc |-> FALSE]

\* the path found by _find_path_hex, or else the one of _gradient_full_path
PathOrGradient(found, m, start, tgt) ==
    IF found = None
    THEN _gradient_full_path(m.map, start, tgt, FALSE)
    ELSE found

\* _apply_carrier_move with the target tgt of the orders
CarrierMoveTo(m, side, tgt) ==
    IF tgt = NONE
    THEN [m |-> m, exc |-> FALSE]
    ELSE IF tgt \in CellsOf(m.map) /\ ~SeaAt(m.map, tgt)
    THEN [m |-> m, exc |-> TRUE]
    ELSE MoveAlong(m, side, m.st[CarrierOf(side)].pos,
                   PathOrGradient(
                      _find_path_hex(m.map, m.st, side,
                                     m.st[CarrierOf(side)].pos, tgt, FALSE,
                                     CarrierOf(side),
                                     m.last_pos_carrier[side]),
                      m, m.st[CarrierOf(side)].pos, tgt))

\* _apply_carrier_move: [m, exc], exc when the call raises.  A land target
\* reaches the use of sess_view before its assignment.
_apply_carrier_move(m, side, orders) ==
    CarrierMoveTo(m, side, order_target(orders, "carrier_target"))

\* the end of _apply_launch_order: the squadron is put on the spawn cell
SpawnAt(m, sq, spawn, tgt_pos) ==
    IF spawn = NONE
    THEN m
    ELSE [m EXCEPT !.st[sq] = [@ EXCEPT !.pos = spawn,
                                        !.target = tgt_pos,
                                        !.state = "outbound"]]

\* the launch target cut to the range of the aircraft along the air path
ClampToRange(path, tgt) ==
    IF Len(path) >= 2
    THEN path[Min2(SQUADRON_RANGE, Len(path) - 1) + 1]
    ELSE tgt

\* the launch of squadron sq of the side towards tgt_pos
LaunchTowards(m, side, sq, tgt_pos) ==
    SpawnAt(m, sq,
            _find_free_adjacent(m.map, m.st, side,
                                m.st[CarrierOf(side)].pos, tgt_pos),
            tgt_pos)

\* _apply_launch_order with the target tgt of the orders
LaunchTo(m, side, tgt) ==
    IF \/ tgt = NONE
       \/ m.st[SquadronOf(side)].state # "base"
       \/ m.st[SquadronOf(side)].hp <= 0
    THEN m
    ELSE LaunchTowards(m, side, SquadronOf(side),
                       ClampToRange(
                          _find_path_hex(m.map, m.st, side,
                                         m.st[CarrierOf(side)].pos, tgt,
                                         TRUE, NoId, NONE),
                          tgt))

\* _apply_launch_order
_apply_launch_order(m, side, orders) ==
    LaunchTo(m, side, order_target(orders, "launch_target"))

\* the cell of the path a unit at pos reaches with its speed spd
StepAlong(path, pos, spd) ==
    IF Len(path) <= 1
    THEN pos
    ELSE path[Max2(1, Min2(spd, Len(path) - 1)) + 1]

\* move_towards of _progress_squadrons: the cell the squadron flies to
move_towards(m, me, sq, target) ==
    IF target = NONE
    THEN m.st[sq].pos
    ELSE StepAlong(_find_path_hex(m.map, m.st, me, m.st[sq].pos, target,
                                  TRUE, sq, NONE),
                   m.st[sq].pos, speed(sq))

\* the squadron on its new cell, engaging once the cell is its target
FlyTo(m, sq, new_pos) ==
    [m EXCEPT !.st[sq].pos = new_pos,
              !.st[sq].state = IF hex_distance(new_pos, m.st[sq].target) = 0
                               THEN "engaging" ELSE @]

\* the flight of an outbound or engaging squadron towards its target
ProgressOutbound(m, sq) ==
    IF m.st[sq].state \in {"outbound", "engaging"} /\ m.st[sq].target # NONE
    THEN FlyTo(m, sq, move_towards(m, side_of(sq), sq, m.st[sq].target))
    ELSE m

\* the squadron sent back to its carrier
TurnBack(m, sq) ==
    [m EXCEPT !.st[sq].target = m.st[CarrierOf(side_of(sq))].pos,
              !.st[sq].state = "returning"]

\* the attack of an engaging squadron: [m, dmg]; last is the snapshot of
\* last_pos_squadrons taken before the squadrons moved
ProgressEngaging(m, sq, last, roll) ==
    IF m.st[sq].state # "engaging"
    THEN [m |-> m, dmg |-> 0]
    ELSE IF hex_distance(m.st[sq].pos,
                         m.st[CarrierOf(Other(side_of(sq)))].pos) <= 1
    THEN [m   |-> TurnBack(m, sq),
          dmg |-> _scaled_damage(m.st[sq].hp, STRIKE_BASE, roll)]
    ELSE IF /\ m.st[sq].target # NONE
            /\ m.st[sq].pos = m.st[sq].target
            /\ last[sq] # NONE
            /\ last[sq] = m.st[sq].pos
    THEN [m |-> TurnBack(m, sq), dmg |-> 0]
    ELSE [m |-> m, dmg |-> 0]

\* a returning squadron on its new cell: it lands next to its carrier
LandOrFly(m, sq, home, new_pos) ==
    IF hex_distance(new_pos, home) <= 1
    THEN [m EXCEPT !.st[sq] = [@ EXCEPT !.pos = invalid,
                                        !.state = "base",
                                        !.target = NONE]]
    ELSE [m EXCEPT !.st[sq].pos = new_pos]

\* a returning squadron aimed at the cell home of its carrier
FlyHome(aimed, sq, home) ==
    LandOrFly(aimed, sq, home, move_towards(aimed, side_of(sq), sq, home))

\* the flight of a returning squadron and its landing
ProgressReturning(m, sq) ==
    IF m.st[sq].state # "returning"
    THEN m
    ELSE FlyHome([m EXCEPT !.st[sq].target = m.st[CarrierOf(side_of(sq))].pos],
                 sq, m.st[CarrierOf(side_of(sq))].pos)

\* the last stage of a squadron's progress, after its attack e = [m, dmg]
ThenReturning(e, sq) == [m |-> ProgressReturning(e.m, sq), dmg |-> e.dmg]

\* one squadron of the loops of _progress_squadrons: [m, dmg]
ProgressSquadron(m, sq, last, roll) ==
    IF ~is_active(m.st, sq)
    THEN [m |-> m, dmg |-> 0]
    ELSE ThenReturning(ProgressEngaging(ProgressOutbound(m, sq), sq, last,
                                        roll),
                       sq)

\* the hp of a carrier after the damage dmg of the turn
HitBy(hp, dmg) == IF dmg # 0 THEN Max2(0, hp - dmg) ELSE hp

\* the end of _progress_squadrons: the damage dmg_a and dmg_b dealt by the
\* squadrons of side A and side B, the last positions of the squadrons
ApplyDamage(m, last, dmg_a, dmg_b) ==
    [m EXCEPT !.st["CA"].hp = HitBy(@, dmg_b),
              !.st["CB"].hp = HitBy(@, dmg_a),
              !.last_pos_squadrons =
                 [sq \in Squadrons |->
                    IF is_valid(m.st[sq].pos) THEN m.st[sq].pos
                                              ELSE last[sq]]]

\* the loop over side B's squadron, after side A's gave a = [m, dmg]
ThenSideB(a, b, last) == ApplyDamage(b.m, last, a.dmg, b.dmg)

ThenProgressB(a, last, roll) ==
    ThenSideB(a, ProgressSquadron(a.m, "SB", last, roll), last)

\* _progress_squadrons: side A's squadron, side B's squadron, the damage to
\* the carriers, the last positions of the squadrons on the map
_progress_squadrons(m, rolls) ==
    ThenProgressB(ProgressSquadron(m, "SA", m.last_pos_squadrons, rolls[1]),
                  m.last_pos_squadrons, rolls[2])

\* sees of _update_intel: a unit of side me has the carrier of the other
\* side within its vision
sees(m, me) ==
    LET target == m.st[CarrierOf(Other(me))].pos
        near(u) == /\ is_active(m.st, u)
                   /\ is_valid(target)
                   /\ hex_distance(m.st[u].pos, target) <= match_vision(u)
    IN  near(CarrierOf(me)) \/ near(SquadronOf(me))

\* _update_intel: a sighting renews the marker, otherwise its ttl decays
_update_intel(m) ==
    [m EXCEPT !.intel =
        [sd \in Sides |->
            IF sees(m, sd)
            THEN Some([seen |-> TRUE,
                       pos  |-> m.st[CarrierOf(Other(sd))].pos,
                       ttl  |-> ttl_reset])
            ELSE IF m.intel[sd] # None
                 THEN Some([m.intel[sd][1] EXCEPT !.ttl = Max2(0, @ - 1)])
                 ELSE None]]

\* the end of _resolve_turn_minimal: the game is over when a carrier is
\* destroyed, and the turn advances
EndTurn(m) ==
    [m   |-> [m EXCEPT !.status = IF m.st["CA"].hp <= 0 \/ m.st["CB"].hp <= 0
                                  THEN "over" ELSE @,
                       !.turn = @ + 1],
     exc |-> FALSE]

\* _resolve_turn_minimal after the carrier moves gave moved = [m, exc]
AfterMoves(moved, oa, ob, rolls) ==
    IF moved.exc
    THEN moved
    ELSE EndTurn(_update_intel(_progress_squadrons(
            _apply_launch_order(_apply_launch_order(moved.m, "A", oa),
                                "B", ob),
            rolls)))

\* side B's carrier move, unless side A's raised
ThenMoveB(moved, ob) ==
    IF moved.exc THEN moved ELSE _apply_carrier_move(moved.m, "B", ob)

\* _resolve_turn_minimal: [m, exc]; when a carrier move raises, m is the
\* match as the moves made so far left it
_resolve_turn_minimal(m, rolls) ==
    AfterMoves(ThenMoveB(_apply_carrier_move(m, "A", m.orders["A"]),
                         m.orders["B"]),
               m.orders["A"], m.orders["B"], rolls)

\* ------------------------------------------------------------------------
\* MatchStore (match.py): create, join, and submit_orders step by step in
\* the threads that serve the requests
\* ------------------------------------------------------------------------
Threads == {"t1", "t2"}

Free == "free"

\* the locals of a thread that is not inside submit_orders
Idle == [pc |-> "idle", side |-> "None", player_orders |-> NoOrder,
         resolved |-> FALSE]

\* MatchStore.create: the creator takes side A of a waiting match
create ==
    /\ match = [_init_world(NewMatch, MatchMap) EXCEPT !.tokens["A"] = TRUE]
    /\ lock = Free
    /\ thr = [t \in Threads |-> Idle]
    /\ submits = 0
    /\ stores = [sd \in Sides |-> 0]
    /\ resolutions = 0
    /\ unsighted = [sd \in Sides |-> Never]
    /\ entry = match
    /\ observed = None

\* the match is in the store: it is deleted when its last player has gone
InStore(m) == m.tokens["A"] \/ m.tokens["B"]

\* MatchStore.join, the whole body under the lock: the joiner takes side B
\* if it is open, else side A if it is open, and the match becomes active
\* when both sides are taken (a full match raises KeyError and is left as
\* it is)
join ==
    /\ lock = Free
    /\ InStore(match)
    /\ ~match.tokens["B"] \/ ~match.tokens["A"]
    /\ match' = [match EXCEPT
                   !.tokens[IF ~match.tokens["B"] THEN "B" ELSE "A"] = TRUE,
                   !.status = IF ~match.tokens["B"] /\ ~match.tokens["A"]
                              THEN @ ELSE "active"]
    /\ UNCHANGED <<lock, thr, submits, stores, resolutions>>
    /\ UNCHANGED <<unsighted, entry, observed>>
    /\ UNCHANGED offmatch

\* the slot of side sd reset to PlayerSlot(), and the status after it: a
\* match that is not over waits for a player again
Vacated(m, sd) ==
    [m EXCEPT !.tokens[sd] = FALSE,
              !.orders[sd] = None,
              !.status = IF @ # "over" THEN "waiting" ELSE @]

\* MatchStore.leave(match_id, token), the whole body under the lock; a
\* token of no side changes nothing
leave(tk) ==
    /\ lock = Free
    /\ InStore(match)
    /\ \E token \in tk :
          match' = IF side_for_token(match, token) = "None"
                   THEN match
                   ELSE Vacated(match, side_for_token(match, token))
    /\ UNCHANGED <<lock, thr, submits, stores, resolutions>>
    /\ UNCHANGED <<unsighted, entry, observed>>
    /\ UNCHANGED offmatch

\* MatchStore.unsubscribe(match_id, q) of a queue subscribed with a token:
\* the player has left when no other subscription of the token remains
unsubscribe(tk) ==
    /\ lock = Free
    /\ InStore(match)
    /\ \E token \in tk, remaining \in BOOLEAN :
          match' = IF side_for_token(match, token) = "None" \/ remaining
                   THEN match
                   ELSE Vacated(match, side_for_token(match, token))
    /\ UNCHANGED <<lock, thr, submits, stores, resolutions>>
    /\ UNCHANGED <<unsighted, entry, observed>>
    /\ UNCHANGED offmatch

\* submit_orders up to the lock: the side of the token is looked up outside
\* the lock; KeyError for a token of no side
SubmitBegin(t, token, po) ==
    /\ thr[t].pc = "idle"
    /\ submits < MaxSubmits
    /\ submits' = submits + 1
    /\ thr' = [thr EXCEPT ![t] =
                  IF side_for_token(match, token) = "None"
                  THEN Idle
                  ELSE [pc |-> "lock", side |-> side_for_token(match, token),
                        player_orders |-> po, resolved |-> FALSE]]
    /\ UNCHANGED <<match, lock, stores, resolutions>>
    /\ UNCHANGED <<unsighted, entry, observed>>
    /\ UNCHANGED offmatch

\* the lock entered without waiting for it to be free
AcquireWithoutWaiting(t) ==
    /\ thr[t].pc = "lock"
    /\ lock' = t
    /\ thr' = [thr EXCEPT ![t].pc = "store"]
    /\ UNCHANGED <<match, submits, stores, resolutions>>
    /\ entry' = match
    /\ observed' = None
    /\ UNCHANGED unsighted
    /\ UNCHANGED offmatch

\* with m.lock: entered when no thread holds the lock
Acquire(t) ==
    /\ thr[t].pc = "lock"
    /\ lock = Free
    /\ lock' = t
    /\ thr' = [thr EXCEPT ![t].pc = "store"]
    /\ UNCHANGED <<match, submits, stores, resolutions>>
    /\ entry' = match
    /\ observed' = None
    /\ UNCHANGED unsighted
    /\ UNCHANGED offmatch

\* the orders of the request are stored in the slot of the side
StoreOrders(t) ==
    /\ thr[t].pc = "store"
    /\ match' = [match EXCEPT
                   !.orders[thr[t].side] = Some(thr[t].player_orders)]
    /\ stores' = [stores EXCEPT ![thr[t].side] = @ + 1]
    /\ thr' = [thr EXCEPT ![t].pc = "check"]
    /\ UNCHANGED <<lock, submits, resolutions>>
    /\ UNCHANGED <<unsighted, entry, observed>>
    /\ UNCHANGED offmatch

\* the condition with "or" between the two slots
EitherReady(m) ==
    /\ m.status = "active"
    /\ (m.orders["A"] # None \/ m.orders["B"] # None)

\* the condition under which submit_orders resolves the turn
BothReady(m) ==
    /\ m.status = "active"
    /\ m.orders["A"] # None /\ m.orders["B"] # None

\* the test of the condition; the else branch only broadcasts
CheckReady(t) ==
    /\ thr[t].pc = "check"
    /\ thr' = [thr EXCEPT ![t].pc = IF BothReady(match) THEN "resolve"
                                                        ELSE "release"]
    /\ UNCHANGED <<match, lock, submits, stores, resolutions>>
    /\ UNCHANGED <<unsighted, entry, observed>>
    /\ UNCHANGED offmatch

\* the except branch around the resolution r = [m, exc]
AnswerException(r) == IF r.exc THEN [r.m EXCEPT !.turn = @ + 1] ELSE r.m

\* the intel updates without a sighting, counted after the resolution
\* r = [m, exc]: a resolution that raised has not come to _update_intel
Unsighted(count, r) ==
    IF r.exc
    THEN count
    ELSE [sd \in Sides |->
             IF sees(r.m, sd) THEN Some(0)
             ELSE IF count[sd] = Never THEN Never
             ELSE Some(Min2(count[sd][1] + 1, ttl_reset + 1))]

\* the match after the try block around the resolution r
Resolved(r) ==
    /\ match' = AnswerException(r)
    /\ unsighted' = Unsighted(unsighted, r)

\* the turn is resolved; an exception of the resolution is answered by
\* advancing the turn
Resolve(t) ==
    /\ thr[t].pc = "resolve"
    /\ \E rolls \in Rolls(variance(STRIKE_BASE))
                    \X Rolls(variance(STRIKE_BASE)) :
          Resolved(_resolve_turn_minimal(match, rolls))
    /\ resolutions' = resolutions + 1
    /\ thr' = [thr EXCEPT ![t].pc = "clear", ![t].resolved = TRUE]
    /\ UNCHANGED <<lock, submits, stores>>
    /\ UNCHANGED <<entry, observed>>
    /\ UNCHANGED offmatch

\* the orders of both sides are cleared for the next turn
ClearOrders(t) ==
    /\ thr[t].pc = "clear"
    /\ match' = [match EXCEPT !.orders = [sd \in Sides |-> None]]
    /\ thr' = [thr EXCEPT ![t].pc = "release"]
    /\ UNCHANGED <<lock, submits, stores, resolutions>>
    /\ UNCHANGED <<unsighted, entry, observed>>
    /\ UNCHANGED offmatch

\* the end of the with block and the return of the response
Release(t) ==
    /\ thr[t].pc = "release"
    /\ lock' = Free
    /\ thr' = [thr EXCEPT ![t] = Idle]
    /\ UNCHANGED <<match, submits, stores, resolutions>>
    /\ UNCHANGED <<unsighted, entry, observed>>
    /\ UNCHANGED offmatch

\* a request from some client, with a token and orders from tk and po
submit_orders(tk, po) ==
    \E t \in Threads, token \in tk :
       \E o \in po[IF token = "B" THEN 2 ELSE 1] : SubmitBegin(t, token, o)

\* ------------------------------------------------------------------------
\* MatchStore.state and the payload it returns to a viewer
\* ------------------------------------------------------------------------
\* the waiting_for field when both slots are tested with "and"
WaitingForBoth(m, viewer_side) ==
    IF m.status = "active" /\ m.orders["A"] = None /\ m.orders["B"] = None
    THEN IF viewer_side \in Sides THEN "you" ELSE "opponent"
    ELSE "none"

\* the waiting_for field of the payload
WaitingFor(m, viewer_side) ==
    IF m.status = "active" /\ (m.orders["A"] = None \/ m.orders["B"] = None)
    THEN IF viewer_side \in Sides /\ m.orders[viewer_side] = None
         THEN "you"
         ELSE "opponent"
    ELSE "none"

\* a marker that shows the carrier whatever its ttl
ShowsAlways(mark) == mark # None

\* the gate of the opponent carrier: a marker with ttl in 1 .. SHOW_TURNS
Shows(mark) ==
    mark # None /\ mark[1].ttl > 0 /\ mark[1].ttl <= SHOW_TURNS

\* a_car / b_car: the carrier of side sd as the viewer is given it, None
\* for {"x": None, "y": None, "hp": None}
CarrierFor(m, sd, viewer_side) ==
    IF viewer_side \in Sides
       /\ (viewer_side = sd \/ Shows(m.intel[viewer_side]))
    THEN Some([pos |-> m.st[CarrierOf(sd)].pos, hp |-> m.st[CarrierOf(sd)].hp])
    ELSE None

\* _squad_light_list of side sd for its own viewer, None for anyone else
SquadronsFor(m, sd, viewer_side) ==
    IF viewer_side = sd
    THEN Some([id    |-> SquadronOf(sd),
               hp    |-> m.st[SquadronOf(sd)].hp,
               state |-> m.st[SquadronOf(sd)].state,
               pos   |-> IF is_active(m.st, SquadronOf(sd))
                         THEN m.st[SquadronOf(sd)].pos ELSE NONE])
    ELSE None

\* the per-viewer result of a match that is over, else None
ResultFor(m, viewer_side) ==
    LET a_hp == m.st["CA"].hp
        b_hp == m.st["CB"].hp
        own  == IF viewer_side = "A" THEN a_hp ELSE b_hp
        opp  == IF viewer_side = "A" THEN b_hp ELSE a_hp
    IN  IF m.status # "over" THEN None
        ELSE IF a_hp <= 0 /\ b_hp <= 0 THEN Some("draw")
        ELSE IF viewer_side \notin Sides THEN Some("draw")
        ELSE IF own <= 0 /\ opp > 0 THEN Some("lose")
        ELSE IF opp <= 0 /\ own > 0 THEN Some("win")
        ELSE Some("draw")

\* _build_state_payload(m, viewer_side)
_build_state_payload(m, viewer_side) ==
    [status      |-> m.status,
     turn        |-> m.turn,
     waiting_for |-> WaitingFor(m, viewer_side),
     result      |-> ResultFor(m, viewer_side),
     a |-> [carrier   |-> CarrierFor(m, "A", viewer_side),
            squadrons |-> SquadronsFor(m, "A", viewer_side)],
     b |-> [carrier   |-> CarrierFor(m, "B", viewer_side),
            squadrons |-> SquadronsFor(m, "B", viewer_side)]]

\* MatchStore.state(match_id, token), which does not take the lock: a call
\* that runs while a thread holds it, the first since the lock was entered
state(tk) ==
    /\ lock # Free
    /\ observed = None
    /\ \E token \in tk :
          observed' =
              Some([viewer  |-> side_for_token(match, token),
                    payload |-> _build_state_payload(
                                    match, side_for_token(match, token))])
    /\ UNCHANGED <<match, lock, thr, submits, stores, resolutions, unsighted,
                   entry>>
    /\ UNCHANGED offmatch

\* ------------------------------------------------------------------------
\* submit_orders as a whole, for requests that do not overlap
\* ------------------------------------------------------------------------
\* the match with the orders po of side stored
Stored(m, side, po) == [m EXCEPT !.orders[side] = Some(po)]

\* the resolution of the stored orders: [m, exc]
Outcome(st, rolls) ==
    IF BothReady(st) THEN _resolve_turn_minimal(st, rolls)
                     ELSE [m |-> st, exc |-> TRUE]

\* the match after the with block
Submitted(st, r) ==
    IF BothReady(st)
    THEN [AnswerException(r) EXCEPT !.orders = [sd \in Sides |-> None]]
    ELSE st

\* the whole call for side with orders po, the draws of the attacks rolls
SubmitWhole(side, po, rolls) ==
    /\ match' = Submitted(Stored(match, side, po),
                          Outcome(Stored(match, side, po), rolls))
    /\ unsighted' = Unsighted(unsighted,
                              Outcome(Stored(match, side, po), rolls))
    /\ stores' = [stores EXCEPT ![side] = @ + 1]
    /\ resolutions' = IF BothReady(Stored(match, side, po))
                      THEN resolutions + 1 ELSE resolutions
    /\ entry' = match
    /\ observed' = None

\* a request of a side that has no orders stored, in one of the first
\* MaxTurns turns, while no other request is being served
SubmitOrders(tk, po) ==
    /\ lock = Free
    /\ \A t \in Threads : thr[t].pc = "idle"
    /\ match.turn <= MaxTurns
    /\ \E token \in tk :
          /\ side_for_token(match, token) # "None"
          /\ match.orders[side_for_token(match, token)] = None
          /\ \E o \in po[IF token = "B" THEN 2 ELSE 1],
                rolls \in Rolls(variance(STRIKE_BASE))
                             \X Rolls(variance(STRIKE_BASE)) :
                SubmitWhole(side_for_token(match, token), o, rolls)
    /\ UNCHANGED <<lock, thr, submits>>
    /\ UNCHANGED offmatch

\* ------------------------------------------------------------------------
\* The intel memory of a session (session.py): the marker of the enemy
\* carrier and the marker of the enemy squadron, None or
\* Some([seen, pos, ttl])
\* ------------------------------------------------------------------------
Markers == {"carrier", "squadron"}

\* Session(...): no marker
NewSession ==
    /\ player_intel = [k \in Markers |-> None]
    /\ quiet = [k \in Markers |-> Never]
    /\ enemy_memory = None
    /\ unseen = Never

\* IntelMarker(seen=True, x, y, ttl=3)
Sighted(p) == Some([seen |-> TRUE, pos |-> p, ttl |-> MARKER_TTL])

\* a marker that loses its sight at once
FadeAtOnce(mark) ==
    IF mark # None /\ mark[1].ttl > 0
    THEN Some([seen |-> FALSE, pos |-> mark[1].pos,
               ttl |-> Max2(0, mark[1].ttl - 1)])
    ELSE mark

\* a marker not renewed in this update: its ttl goes down by one, it is
\* seen while ttl is left
Fade(mark) ==
    IF mark # None /\ mark[1].ttl > 0
    THEN LET ttl == Max2(0, mark[1].ttl - 1)
         IN  Some([seen |-> ttl > 0, pos |-> mark[1].pos, ttl |-> ttl])
    ELSE mark

\* the enemy squadron is on the map
Flying(s) == s.state \notin {"base", "lost"} /\ is_valid(s.pos)

\* _update_player_intel(sess, turn_visible): ec is the cell of the enemy
\* carrier, s the enemy squadron [state, pos]
_update_player_intel(intel, ec, s, turn_visible) ==
    [k \in Markers |->
        IF k = "carrier"
        THEN IF ec \in turn_visible THEN Sighted(ec) ELSE Fade(intel[k])
        ELSE IF Flying(s) /\ s.pos \in turn_visible
             THEN Sighted(s.pos)
             ELSE Fade(intel[k])]

\* the marker k is renewed by the update
Renewed(k, ec, s, turn_visible) ==
    IF k = "carrier" THEN ec \in turn_visible
                     ELSE Flying(s) /\ s.pos \in turn_visible

\* the intel update of one session turn
PlayerIntelUpdated(cells, squadrons) ==
    /\ \E ec \in cells, s \in squadrons, turn_visible \in SUBSET cells :
          /\ player_intel' =
                _update_player_intel(player_intel, ec, s, turn_visible)
          /\ quiet' = [k \in Markers |->
                         IF Renewed(k, ec, s, turn_visible) THEN Some(0)
                         ELSE IF quiet[k] = Never THEN Never
                         ELSE Some(Min2(quiet[k][1] + 1,
                                        MARKER_TTL + 1))]

UpdatePlayerIntel(cells, squadrons) ==
    /\ PlayerIntelUpdated(cells, squadrons)
    /\ UNCHANGED <<enemy_memory, unseen>>
    /\ UNCHANGED offsession

\* plan_orders, memory evolution: mem_in is the marker of the request
\* (None without one) and can_launch says that the enemy carrier has room
\* in the air and a squadron in state base.  A squadron is launched to the
\* known position (last_seen) when the marker is seen with ttl left; a
\* marker with ttl >= 3 counts as renewed by the caller and keeps its ttl.
MemoryOut(mem_in, can_launch) ==
    IF mem_in = None
    THEN None
    ELSE LET m           == mem_in[1]
             launched    == can_launch /\ m.seen /\ m.ttl > 0
             visible_now == m.ttl >= VISIBLE_TTL
             ttl         == IF visible_now THEN m.ttl
                                           ELSE Max2(0, m.ttl - 1)
             ttl_next    == IF launched THEN Max2(0, ttl - 1) ELSE ttl
         IN  Some([seen |-> ttl_next > 0, pos |-> m.pos, ttl |-> ttl_next])

\* SessionStore.step: the memory of the player carrier is renewed when an
\* enemy unit sees the carrier (on cell seen_at, NONE when none does), the
\* plan of the enemy is made with that memory and gives the memory the
\* session keeps; the intel of the player is updated at the end
Step(cells, squadrons) ==
    /\ \E seen_at \in cells \cup {NONE}, can_launch \in BOOLEAN :
          /\ enemy_memory' =
                MemoryOut(IF seen_at # NONE THEN Sighted(seen_at)
                                            ELSE enemy_memory,
                          can_launch)
          /\ unseen' = IF seen_at # NONE THEN Some(0)
                       ELSE IF unseen = Never THEN Never
                       ELSE Some(Min2(unseen[1] + 1, MARKER_TTL + 1))
    /\ PlayerIntelUpdated(cells, squadrons)
    /\ UNCHANGED offsession

\* ------------------------------------------------------------------------
\* The call of a function: its arguments, then its value
\* ------------------------------------------------------------------------
NoCall ==
    /\ args = None
    /\ ret = None
    /\ gen = None

\* HexArray.find_path (hexmap.py): the loop over the heap, which ends
\* without a path after budget expansions
RECURSIVE FindLoop(_, _, _, _, _, _, _, _, _)
FindLoop(m, il, goal, open_heap, came_from, g_score, closed, expands, budget) ==
    IF open_heap = {} \/ expands >= budget
    THEN None
    ELSE LET e    == CHOOSE a \in open_heap :
                        \A b \in open_heap : a = b \/ heap_lt(a, b)
             c    == e[3]
             rest == open_heap \ {e}
         IN  IF c \in closed
             THEN FindLoop(m, il, goal, rest, came_from, g_score, closed,
                           expands, budget)
             ELSE IF hex_distance(c, goal) <= 0
                  THEN PathTo(came_from, c)
                  ELSE LET tentative == e[2] + 1
                           better == {n \in NbrSet(c) :
                                         /\ passable(m, n, il)
                                         /\ tentative < g_score[n]}
                       IN  FindLoop(m, il, goal,
                                    rest \cup
                                      {<<tentative + hex_distance(n, goal),
                                         tentative, n>> : n \in better},
                                    [x \in DOMAIN came_from |->
                                       IF x \in better THEN c
                                                       ELSE came_from[x]],
                                    [x \in DOMAIN g_score |->
                                       IF x \in better THEN tentative
                                                       ELSE g_score[x]],
                                    closed \cup {c}, expands + 1, budget)

\* find_path with max_expand = budget and stop_range = 0
FindWithin(m, start, goal, ignore_land, budget) ==
    IF ~passable(m, start, ignore_land)
    THEN None
    ELSE IF hex_distance(start, goal) <= 0
         THEN <<start>>
         ELSE FindLoop(m, ignore_land, goal,
                       {<<hex_distance(start, goal), 0, start>>},
                       [c \in CellsOf(m) |-> NONE],
                       [c \in CellsOf(m) |-> IF c = start THEN 0
                                                          ELSE UNREACHED],
                       {}, 0, budget)

\* the search that gives up after its second expansion
find_path_in_two(m, start, goal, ignore_land) ==
    FindWithin(m, start, goal, ignore_land, 2)

\* HexArray.find_path(start, goal, ignore_land) on the map m
find_path(m, start, goal, ignore_land) ==
    FindWithin(m, start, goal, ignore_land, max_expand)

\* the sea cells of the map m
SeaOf(m) == {c \in CellsOf(m) : SeaAt(m, c)}

\* the test that answers whether the map has a sea cell
validate_has_sea(m) == SeaOf(m) # {}

\* HexArray.validate_sea_connectivity: the wave starts from the sea cell
\* the scan by rows meets last
validate_sea_connectivity(m) ==
    IF SeaOf(m) = {}
    THEN FALSE
    ELSE LET sea_pos == CHOOSE c \in SeaOf(m) :
                            \A d \in SeaOf(m) :
                                d[2] < c[2] \/ (d[2] = c[2] /\ d[1] <= c[1])
             dist    == gradient_field(m, sea_pos, FALSE)
         IN  \A c \in SeaOf(m) : dist[c] # INF

\* _validate_sea_connectivity (session.py), its first component: the wave
\* starts from the sea cell the scan by rows meets first
_validate_sea_connectivity(m) ==
    IF SeaOf(m) = {}
    THEN TRUE
    ELSE LET first == CHOOSE c \in SeaOf(m) :
                          \A d \in SeaOf(m) :
                              c[2] < d[2] \/ (c[2] = d[2] /\ c[1] <= d[1])
             dist  == gradient_field(m, first, FALSE)
         IN  \A c \in SeaOf(m) : dist[c] < INF

\* the cells one blob turns into land: the disc of radius rad around
\* (cx, cy), clamped to the w by h grid
Blob(w, h, cx, cy, rad) ==
    {<<Max2(0, Min2(w - 1, cx + d[1])), Max2(0, Min2(h - 1, cy + d[2]))>> :
        d \in {e \in (-rad .. rad) \X (-rad .. rad) :
                  e[1] * e[1] + e[2] * e[2] <= rad * rad}}

\* the draws of cx, cy and rad for one blob
BlobDraws(w, h) ==
    [cx : 2 .. Max2(2, w - 3), cy : 2 .. Max2(2, h - 3), rad : 1 .. MAX_RAD]

\* the land of a map after blobs blobs, for every draw
RECURSIVE Lands(_, _, _)
Lands(w, h, blobs) ==
    IF blobs = 0
    THEN {{}}
    ELSE {land \cup Blob(w, h, b.cx, b.cy, b.rad) :
             land \in Lands(w, h, blobs - 1), b \in BlobDraws(w, h)}

\* the w by h map with the cells of land set to 1
MapOf(w, h, land) ==
    [y \in 1 .. h |-> [x \in 1 .. w |->
        IF <<x - 1, y - 1>> \in land THEN 1 ELSE 0]]

\* the connectivity test a generator puts its map to
Accepts(fn, m) ==
    IF fn = "generate_connected_map" THEN validate_sea_connectivity(m)
                                     ELSE _validate_sea_connectivity(m)

Generators == {"generate_connected_map", "_generate_connected_map"}

\* the width and the height of the maps the generators are called for
GenSize == <<6, 5>>

\* the maps one attempt can make with blobs blobs, computed once
GenTable ==
    [blobs \in 0 .. MaxBlobs |->
        {MapOf(GenSize[1], GenSize[2], land) :
            land \in Lands(GenSize[1], GenSize[2], blobs)}]

\* the answers of the connectivity tests to these maps, computed once
AcceptTable ==
    [fn \in Generators |->
        [m \in UNION {GenTable[blobs] : blobs \in 0 .. MaxBlobs} |->
            Accepts(fn, m)]]

Passes(fn, m) == AcceptTable[fn][m]

\* for _attempt in range(60) is never over
Unexhausted(attempts) == FALSE

\* for _attempt in range(60) is over
Exhausted(attempts) == attempts >= MAX_ATTEMPTS

\* one attempt of generate_connected_map (hexmap.py) or
\* _generate_connected_map (session.py): a map is made and the function
\* returns if it passes
GenAttempt ==
    /\ gen # None
    /\ gen[1].pc = "loop"
    /\ ~Exhausted(gen[1].attempts)
    /\ \E new_map \in GenTable[gen[1].blobs] :
          gen' = Some([gen[1] EXCEPT
                          !.attempts = @ + 1,
                          !.map = new_map,
                          !.pc = IF Passes(gen[1].fn, new_map)
                                 THEN "returned" ELSE "loop"])
    /\ UNCHANGED <<args, ret>>
    /\ UNCHANGED offcall

\* the loop is over without a map that passed: the function returns
GenReturn ==
    /\ gen # None
    /\ gen[1].pc = "loop"
    /\ Exhausted(gen[1].attempts)
    /\ gen' = Some([gen[1] EXCEPT !.pc = "returned"])
    /\ UNCHANGED <<args, ret>>
    /\ UNCHANGED offcall

\* _carve_sea(m, cx, cy, r): every cell within r of c is made sea
_carve_sea(m, c, r) ==
    [y \in 1 .. Len(m) |-> [x \in 1 .. Len(m[1]) |->
        IF hex_distance(<<x - 1, y - 1>>, c) <= r THEN 0 ELSE m[y][x]]]

\* the cells on which the carriers of a new match or session are put:
\* (3, 3) and (W - 4, H - 4)
Spawns(m) == << <<3, 3>>, <<Len(m[1]) - 4, Len(m) - 4>> >>

\* the map with the sea carved around both carriers
Carved(m) == _carve_sea(_carve_sea(m, Spawns(m)[1], 2), Spawns(m)[2], 2)

\* the width and the height of the maps a match or a session is created on
WorldSize == <<12, 5>>

\* the land of a map after blobs blobs of the greatest radius, for every
\* draw of their centres
RECURSIVE WorldLands(_, _, _)
WorldLands(w, h, blobs) ==
    IF blobs = 0
    THEN {{}}
    ELSE {land \cup Blob(w, h, b.cx, b.cy, b.rad) :
             land \in WorldLands(w, h, blobs - 1),
             b \in {d \in BlobDraws(w, h) : d.rad = MAX_RAD}}

\* the maps one attempt of _generate_connected_map can make with them
WorldTable ==
    {MapOf(WorldSize[1], WorldSize[2], land) :
        land \in WorldLands(WorldSize[1], WorldSize[2], MaxBlobs)}

\* the map m returned by _generate_connected_map, which succeeded if m
\* passed its test and went through all its attempts if not, and carved;
\* g.connected are the maps that pass the test
Generated(g, m) ==
    [g EXCEPT !.made = m, !.map = Carved(m), !.ok = (m \in g.connected)]

\* MatchStore._init_world: the map is generated and carved
InitWorld ==
    /\ gen # None
    /\ gen[1].fn = "_init_world"
    /\ gen[1].pc = "generate"
    /\ \E m \in WorldTable :
          gen' = Some([Generated(gen[1], m) EXCEPT !.pc = "done"])
    /\ UNCHANGED <<args, ret>>
    /\ UNCHANGED offcall

\* SessionStore.create up to its loop: the map is generated and carved
CreateGenerate ==
    /\ gen # None
    /\ gen[1].fn = "create"
    /\ gen[1].pc = "generate"
    /\ \E m \in WorldTable :
          gen' = Some([Generated(gen[1], m) EXCEPT !.pc = "validate"])
    /\ UNCHANGED <<args, ret>>
    /\ UNCHANGED offcall

\* one pass of the loop of SessionStore.create: the carved map is tested,
\* and replaced by a new carved one if it fails; the loop ends after
\* REVALIDATIONS passes
CreateValidate ==
    /\ gen # None
    /\ gen[1].fn = "create"
    /\ gen[1].pc = "validate"
    /\ IF \/ gen[1].tries >= REVALIDATIONS
          \/ gen[1].made \in gen[1].carved_connected
       THEN gen' = Some([gen[1] EXCEPT !.pc = "done"])
       ELSE \E m \in WorldTable :
               gen' = Some([Generated(gen[1], m) EXCEPT !.tries = @ + 1])
    /\ UNCHANGED <<args, ret>>
    /\ UNCHANGED offcall

\* validate_sea_connectivity is called on the map args
CallValidateSeaConnectivity ==
    /\ args # None /\ ret = None
    /\ ret' = Some(validate_sea_connectivity(args[1]))
    /\ UNCHANGED <<args, gen>>
    /\ UNCHANGED offcall

\* _find_path_hex is called for the unit of args, from the cell the unit
\* is on, with the id of the unit as ignore_id
CallFindPathHex ==
    /\ args # None /\ ret = None
    /\ ret' = Some(_find_path_hex(args[1].map, args[1].st, args[1].me,
                                  args[1].st[args[1].unit].pos,
                                  args[1].goal, args[1].pass_islands,
                                  args[1].unit, NONE))
    /\ UNCHANGED <<args, gen>>
    /\ UNCHANGED offcall

\* gradient_field is called on the map, with the goal and ignore_land of
\* args
CallGradientField ==
    /\ args # None /\ ret = None
    /\ ret' = Some(gradient_field(args[1].map, args[1].goal,
                                  args[1].ignore_land))
    /\ UNCHANGED <<args, gen>>
    /\ UNCHANGED offcall

\* a call of scaled_damage (turn.py), _scaled_damage or _scaled_aa
\* (session.py) returns
CallScaledDamage ==
    /\ args # None /\ ret = None
    /\ ret' = Some(IF args[1].fn = "scaled_damage"
                   THEN scaled_damage(args[1].hp, args[1].max_hp,
                                      args[1].base, args[1].roll)
                   ELSE IF args[1].fn = "_scaled_damage"
                   THEN _scaled_damage(args[1].hp, args[1].base, args[1].roll)
                   ELSE _scaled_aa(args[1].hp, args[1].base, args[1].roll))
    /\ UNCHANGED <<args, gen>>
    /\ UNCHANGED offcall

\* Position.hex_distance is taken between the positions a, b and c
CallHexDistance ==
    /\ args # None /\ ret = None
    /\ ret' = Some([ab |-> hex_distance(args[1].a, args[1].b),
                    ba |-> hex_distance(args[1].b, args[1].a),
                    bc |-> hex_distance(args[1].b, args[1].c),
                    ac |-> hex_distance(args[1].a, args[1].c)])
    /\ UNCHANGED <<args, gen>>
    /\ UNCHANGED offcall

\* find_path(start, goal) and gradient_field(goal) are called on a map
CallPlanners ==
    /\ args # None /\ ret = None
    /\ ret' = Some([path |-> find_path(args[1].map, args[1].start,
                                       args[1].goal, args[1].ignore_land),
                    dist |-> gradient_field(args[1].map, args[1].goal,
                                            args[1].ignore_land)
                                [args[1].start]])
    /\ UNCHANGED <<args, gen>>
    /\ UNCHANGED offcall

\* ------------------------------------------------------------------------
\* Specification of the board under orders of every kind: sea cells, the
\* land cell, a cell off the map
\* ------------------------------------------------------------------------
StartDraws == {<<0, 0>>, <<1, 0>>, <<3, 1>>}

CarrierTargets == << {NONE, <<1, 0>>, <<4, 0>>}, {NONE, <<1, 0>>, <<3, 0>>} >>

LaunchTargets == << {NONE, <<0, 1>>}, {NONE, <<2, 1>>, <<3, 0>>} >>

Init ==
    /\ Construct(NearMap, <<0, 0>>, <<3, 1>>, CARRIER_MAX_HP, SQUAD_MAX_HP,
                 StartDraws)
    /\ create
    /\ NewSession
    /\ NoCall

Next ==
    \/ TurnForwardBadLength
    \/ TurnForward(CarrierTargets)
    \/ TickPop
    \/ TurnForwardEnd(LaunchTargets)

Spec == Init /\ [][Next]_vars

\* ------------------------------------------------------------------------
\* Specification of a board whose carriers start out of sight of each other
\* and of the squadrons that stay near their own carrier
\* ------------------------------------------------------------------------
FarDraws == {<<0, 0>>, <<7, 1>>}

FarCarrierTargets == << {NONE}, {NONE, <<5, 1>>} >>

FarLaunchTargets == << {NONE, <<0, 0>>}, {NONE, <<5, 1>>} >>

InitFar ==
    /\ Construct(FarMap, <<0, 0>>, <<7, 1>>, CARRIER_MAX_HP, SQUAD_MAX_HP,
                 FarDraws)
    /\ create
    /\ NewSession
    /\ NoCall

NextFar ==
    \/ TurnForwardBadLength
    \/ TurnForward(FarCarrierTargets)
    \/ TickPop
    \/ TurnForwardEnd(FarLaunchTargets)

SpecFar == InitFar /\ [][NextFar]_vars

\* ------------------------------------------------------------------------
\* Specification of a board built with damaged units, whose squadrons are
\* sent against the enemy carrier: one attack sinks a carrier, one burst
\* of anti-air fire shoots a squadron down
\* ------------------------------------------------------------------------
\* <<hp of the carriers, hp of the squadrons>>
CombatHp == { <<25, 40>>, <<100, 16>> }

CombatCarrierTargets == << {NONE}, {NONE} >>

CombatLaunchTargets == << {NONE, <<3, 1>>}, {NONE, <<0, 0>>} >>

InitCombat ==
    /\ \E hp \in CombatHp :
          Construct(NearMap, <<0, 0>>, <<3, 1>>, hp[1], hp[2], StartDraws)
    /\ create
    /\ NewSession
    /\ NoCall

NextCombat ==
    \/ TurnForwardBadLength
    \/ TurnForward(CombatCarrierTargets)
    \/ TickPop
    \/ TurnForwardEnd(CombatLaunchTargets)

SpecCombat == InitCombat /\ [][NextCombat]_vars

\* ------------------------------------------------------------------------
\* Specification of a board on which only the carriers are given orders
\* ------------------------------------------------------------------------
MoveCarrierTargets ==
    << {NONE, <<0, 1>>, <<2, 0>>, <<3, 1>>}, {NONE, <<0, 0>>, <<1, 1>>} >>

MoveLaunchTargets == << {NONE}, {NONE} >>

InitMove ==
    /\ Construct(NearMap, <<0, 0>>, <<3, 1>>, CARRIER_MAX_HP, SQUAD_MAX_HP,
                 StartDraws)
    /\ create
    /\ NewSession
    /\ NoCall

NextMove ==
    \/ TurnForwardBadLength
    \/ TurnForward(MoveCarrierTargets)
    \/ TickPop
    \/ TurnForwardEnd(MoveLaunchTargets)

SpecMove == InitMove /\ [][NextMove]_vars

\* ------------------------------------------------------------------------
\* Specification of a match: the creator holds side A, a second player
\* joins, and the clients of both sides send orders from concurrent
\* requests; the token X belongs to no side
\* ------------------------------------------------------------------------
MatchTokens == {"A", "B", "X"}

MatchOrders ==
    << {NoOrder,
        [NoOrder EXCEPT !.carrier_target = <<2, 1>>],
        [NoOrder EXCEPT !.carrier_target = <<3, 0>>],
        [NoOrder EXCEPT !.launch_target = <<5, 1>>]},
       {NoOrder,
        [NoOrder EXCEPT !.carrier_target = <<4, 1>>]} >>

InitMatch ==
    /\ Construct(NearMap, <<0, 0>>, <<3, 1>>, CARRIER_MAX_HP, SQUAD_MAX_HP,
                 {<<1, 1>>})
    /\ create
    /\ NewSession
    /\ NoCall

NextMatch ==
    \/ join
    \/ submit_orders(MatchTokens, MatchOrders)
    \/ \E t \in Threads : Acquire(t)
    \/ \E t \in Threads : StoreOrders(t)
    \/ \E t \in Threads : CheckReady(t)
    \/ \E t \in Threads : Resolve(t)
    \/ \E t \in Threads : ClearOrders(t)
    \/ \E t \in Threads : Release(t)

SpecMatch == InitMatch /\ [][NextMatch]_vars

\* ------------------------------------------------------------------------
\* Specification of the last turns of a game: the board two turns before
\* the turn ceiling, the carriers intact or damaged, the squadrons sent
\* against the enemy carrier or kept at base
\* ------------------------------------------------------------------------
CeilingHp == {CARRIER_MAX_HP, 60}

CeilingCarrierTargets == << {NONE}, {NONE} >>

CeilingLaunchTargets == << {NONE, <<3, 1>>}, {NONE, <<0, 0>>} >>

InitCeiling ==
    /\ \E ha \in CeilingHp, hb \in CeilingHp :
          Played(NearMap, <<0, 0>>, <<3, 1>>, ha, hb, SQUAD_MAX_HP,
                 max_turn - 2)
    /\ create
    /\ NewSession
    /\ NoCall

NextCeiling ==
    \/ TurnForward(CeilingCarrierTargets)
    \/ TickPop
    \/ TurnForwardEnd(CeilingLaunchTargets)

SpecCeiling == InitCeiling /\ [][NextCeiling]_vars

\* ------------------------------------------------------------------------
\* Specification of the intel memory of a session: in every turn the enemy
\* carrier is on one of three cells, the enemy squadron at base or over one
\* of them, and any of the cells are in sight
\* ------------------------------------------------------------------------
IntelCells == {<<0, 0>>, <<1, 0>>, <<2, 0>>}

IntelSquadrons ==
    {[state |-> "base", pos |-> invalid]}
        \cup {[state |-> "outbound", pos |-> p] : p \in IntelCells}

InitIntel ==
    /\ Construct(NearMap, <<0, 0>>, <<3, 1>>, CARRIER_MAX_HP, SQUAD_MAX_HP,
                 {<<1, 1>>})
    /\ create
    /\ NewSession
    /\ NoCall

NextIntel == UpdatePlayerIntel(IntelCells, IntelSquadrons)

SpecIntel == InitIntel /\ [][NextIntel]_vars

\* ------------------------------------------------------------------------
\* Specification of the steps of a session: in every step the enemy sees
\* the player carrier on one of the cells or not at all, and has a squadron
\* to launch or not
\* ------------------------------------------------------------------------
MemoryCells == {<<0, 0>>, <<1, 0>>}

MemorySquadrons == {[state |-> "base", pos |-> invalid]}

NextMemory == Step(MemoryCells, MemorySquadrons)

SpecMemory == InitIntel /\ [][NextMemory]_vars

\* ------------------------------------------------------------------------
\* Specification of a match played turn by turn: each side sends its
\* orders once per turn; carrier B can close in on carrier A and withdraw,
\* side A can send its squadron out
\* ------------------------------------------------------------------------
FogTokens == {"A", "B"}

FogOrders ==
    << {NoOrder,
        [NoOrder EXCEPT !.launch_target = <<4, 0>>]},
       {NoOrder,
        [NoOrder EXCEPT !.carrier_target = <<2, 1>>],
        [NoOrder EXCEPT !.carrier_target = <<6, 1>>]} >>

InitFog ==
    /\ Construct(NearMap, <<0, 0>>, <<3, 1>>, CARRIER_MAX_HP, SQUAD_MAX_HP,
                 {<<1, 1>>})
    /\ create
    /\ NewSession
    /\ NoCall

NextFog ==
    \/ join
    \/ SubmitOrders(FogTokens, FogOrders)

SpecFog == InitFog /\ [][NextFog]_vars

\* ------------------------------------------------------------------------
\* Specification of a match whose state is read while orders are submitted
\* ------------------------------------------------------------------------
ReadTokens == {"A", "B"}

ReadOrders ==
    << {NoOrder, [NoOrder EXCEPT !.carrier_target = <<2, 1>>]},
       {NoOrder} >>

NextRead ==
    \/ join
    \/ submit_orders(ReadTokens, ReadOrders)
    \/ state(ReadTokens)
    \/ \E t \in Threads : Acquire(t)
    \/ \E t \in Threads : StoreOrders(t)
    \/ \E t \in Threads : CheckReady(t)
    \/ \E t \in Threads : Resolve(t)
    \/ \E t \in Threads : ClearOrders(t)
    \/ \E t \in Threads : Release(t)

SpecRead == InitFog /\ [][NextRead]_vars

\* the fuel of a squadron: the greatest hex distance from the carrier it
\* can be launched to
fuel(id) == SQUADRON_RANGE

\* the checks of a carrier target: the messages, and whether the function
\* returns with them
CarrierChecks(us, side, t) ==
    IF t = NONE
    THEN [msgs |-> <<>>, done |-> FALSE]
    ELSE IF ~is_active(us, CarrierOf(side))
         THEN [msgs |-> <<"Carrier not found or sunk.">>, done |-> TRUE]
         ELSE IF ~in_bounds(t)
              THEN [msgs |-> <<"Carrier target out of map bounds.">>,
                    done |-> FALSE]
              ELSE IF get(t[1], t[2]) # 0
                   THEN [msgs |-> <<"Carrier target is not on sea.">>,
                         done |-> FALSE]
                   ELSE [msgs |-> <<>>, done |-> FALSE]

\* the checks of a launch target but for the range
LaunchChecks(us, side, t) ==
    IF us[SquadronOf(side)].state # "base" \/ ~is_active(us, CarrierOf(side))
    THEN [msgs |-> <<"No available squadron to launch.">>, done |-> TRUE]
    ELSE IF ~in_bounds(t)
         THEN [msgs |-> <<"Launch target out of map bounds.">>,
               done |-> FALSE]
         ELSE IF get(t[1], t[2]) # 0
              THEN [msgs |-> <<"Launch target is not on sea.">>,
                    done |-> FALSE]
              ELSE [msgs |-> <<>>, done |-> FALSE]

\* the function without the check of the range
validate_orders_any_range(us, side, orders) ==
    IF orders = None
    THEN <<>>
    ELSE LET c == CarrierChecks(us, side, orders[1].carrier_target)
         IN  IF c.done \/ orders[1].launch_target = NONE
             THEN c.msgs
             ELSE c.msgs \o LaunchChecks(us, side,
                                         orders[1].launch_target).msgs

\* validate_orders(side, orders): the list of messages
validate_orders(us, side, orders) ==
    IF orders = None
    THEN <<>>
    ELSE LET c == CarrierChecks(us, side, orders[1].carrier_target)
             t == orders[1].launch_target
         IN  IF c.done \/ t = NONE
             THEN c.msgs
             ELSE IF LaunchChecks(us, side, t).msgs # <<>>
                  THEN c.msgs \o LaunchChecks(us, side, t).msgs
                  ELSE IF hex_distance(us[CarrierOf(side)].pos, t)
                             > fuel(SquadronOf(side))
                       THEN c.msgs \o
                            <<"Launch target is out of squadron range.">>
                       ELSE c.msgs

\* a call of validate_orders for a side with orders whose targets are among
\* targets, or with None
ValidateOrders(targets) ==
    /\ pc = "idle"
    /\ ret = None
    /\ \E side \in Sides, orders \in {None} \cup
              {Some([carrier_target |-> ct, launch_target |-> lt]) :
                  ct \in targets, lt \in targets} :
          /\ args' = Some([side |-> side, orders |-> orders])
          /\ ret' = Some(validate_orders(units, side, orders))
    /\ UNCHANGED gen
    /\ UNCHANGED offcall

\* ------------------------------------------------------------------------
\* Specification of the damage functions: every hp of the attacker, the
\* base values the callers pass and one too small for a variance, every
\* draw of random.randint.  For these values the float product raw * scale
\* rounds as the exact one.
\* ------------------------------------------------------------------------
DamageBases == {2, STRIKE_BASE, AA_BASE, ATTACK_BASE}

DamageArgs ==
    {a \in [fn : {"scaled_damage", "_scaled_damage", "_scaled_aa"},
            hp : 0 .. CARRIER_MAX_HP,
            max_hp : {SQUAD_MAX_HP, CARRIER_MAX_HP},
            base : DamageBases,
            roll : -variance(ATTACK_BASE) .. variance(ATTACK_BASE)] :
        /\ a.hp <= a.max_hp
        /\ a.roll \in -variance(a.base) .. variance(a.base)
        /\ a.fn = "_scaled_damage" => a.max_hp = SQUAD_MAX_HP
        /\ a.fn = "_scaled_aa" => a.max_hp = CARRIER_MAX_HP}

\* the state while no board, match or session is in play and the function
\* is called with one of the arguments in inputs
Called(inputs) ==
    /\ Construct(NearMap, <<0, 0>>, <<3, 1>>, CARRIER_MAX_HP, SQUAD_MAX_HP,
                 {<<1, 1>>})
    /\ create
    /\ NewSession
    /\ args \in {Some(a) : a \in inputs}
    /\ ret = None
    /\ gen = None

InitDamage == Called(DamageArgs)

NextDamage == CallScaledDamage

SpecDamage == InitDamage /\ [][NextDamage]_vars

\* ------------------------------------------------------------------------
\* Specification of Position.hex_distance: three positions with
\* coordinates of either sign and either parity
\* ------------------------------------------------------------------------
Coords == (-MaxCoord .. MaxCoord) \X (-MaxCoord .. MaxCoord)

DistanceArgs == [a : Coords, b : Coords, c : Coords]

InitDistance == Called(DistanceArgs)

NextDistance == CallHexDistance

SpecDistance == InitDistance /\ [][NextDistance]_vars

\* ------------------------------------------------------------------------
\* Specification of the two planners of HexArray: every pair of sea cells
\* of a map whose sea is connected and of a map with two seas and a lake
\* ------------------------------------------------------------------------
PlannerMaps == {NearMap, SplitMap}

PlannerArgs ==
    {a \in [map : PlannerMaps, start : CellsOf(SplitMap),
            goal : CellsOf(SplitMap), ignore_land : BOOLEAN] :
        /\ a.start \in CellsOf(a.map) /\ SeaAt(a.map, a.start)
        /\ a.goal \in CellsOf(a.map) /\ SeaAt(a.map, a.goal)}

InitPlanners == Called(PlannerArgs)

NextPlanners == CallPlanners

SpecPlanners == InitPlanners /\ [][NextPlanners]_vars

\* ------------------------------------------------------------------------
\* Specification of validate_sea_connectivity: every map of MaxWidth by 3
\* cells, and the 5 by 5 map with a wall of land across row 2, whole and
\* with the cell (2, 2) opened
\* ------------------------------------------------------------------------
WallMap == << <<0, 0, 0, 0, 0>>,
              <<0, 0, 0, 0, 0>>,
              <<1, 1, 1, 1, 1>>,
              <<0, 0, 0, 0, 0>>,
              <<0, 0, 0, 0, 0>> >>

OpenedWallMap == [WallMap EXCEPT ![3][3] = 0]

ConnectivityArgs ==
    [1 .. 3 -> [1 .. MaxWidth -> {0, 1}]] \cup {WallMap, OpenedWallMap}

InitConnectivity == Called(ConnectivityArgs)

NextConnectivity == CallValidateSeaConnectivity

SpecConnectivity == InitConnectivity /\ [][NextConnectivity]_vars

\* ------------------------------------------------------------------------
\* Specification of the calls of gradient_field: every map of FieldSize
\* with at most MaxLand cells of land and every cell of it as goal, land
\* ignored or not, and the two maps of the tests, seven by five
\* ------------------------------------------------------------------------
AllSeaMap == [y \in 1 .. 5 |-> [x \in 1 .. 7 |-> 0]]

ObstacleMap == [AllSeaMap EXCEPT ![3][5] = 1]

FieldSize == <<3, 3>>

GradientMaps ==
    {MapOf(FieldSize[1], FieldSize[2], land) :
        land \in {l \in SUBSET ((0 .. FieldSize[1] - 1)
                                  \X (0 .. FieldSize[2] - 1)) :
                     Cardinality(l) <= MaxLand}}

GradientArgs ==
    UNION {{[map |-> m, goal |-> g, ignore_land |-> il] :
               g \in CellsOf(m), il \in BOOLEAN} : m \in GradientMaps}
    \cup {[map |-> AllSeaMap, goal |-> <<3, 2>>, ignore_land |-> FALSE],
          [map |-> ObstacleMap, goal |-> <<5, 2>>, ignore_land |-> FALSE],
          [map |-> ObstacleMap, goal |-> <<5, 2>>, ignore_land |-> TRUE]}

InitGradient == Called(GradientArgs)

NextGradient == CallGradientField

SpecGradient == InitGradient /\ [][NextGradient]_vars

\* ------------------------------------------------------------------------
\* Specification of the calls of _find_path_hex for a unit on its own cell:
\* the carriers at their corners of the four by two map, each squadron in
\* its carrier or in the air next to it, any unit on the map as the unit
\* that moves, any cell as goal
\* ------------------------------------------------------------------------
OwnCellStates ==
    {[id \in Ids |->
        IF id = "CA"
        THEN [pos |-> <<0, 0>>, hp |-> CARRIER_MAX_HP, target |-> NONE,
              state |-> "carrier"]
        ELSE IF id = "CB"
        THEN [pos |-> <<3, 1>>, hp |-> CARRIER_MAX_HP, target |-> NONE,
              state |-> "carrier"]
        ELSE IF id = "SA"
        THEN [pos |-> IF fa THEN <<1, 0>> ELSE invalid, hp |-> SQUAD_MAX_HP,
              target |-> NONE, state |-> IF fa THEN "outbound" ELSE "base"]
        ELSE [pos |-> IF fb THEN <<2, 1>> ELSE invalid, hp |-> SQUAD_MAX_HP,
              target |-> NONE, state |-> IF fb THEN "outbound" ELSE "base"]] :
      fa \in BOOLEAN, fb \in BOOLEAN}

OwnCellArgs ==
    {a \in [map : {NearMap}, st : OwnCellStates, me : Sides, unit : Ids,
            goal : CellsOf(NearMap), pass_islands : BOOLEAN] :
        is_valid(a.st[a.unit].pos)}

InitOwnCell == Called(OwnCellArgs)

NextOwnCell == CallFindPathHex

SpecOwnCell == InitOwnCell /\ [][NextOwnCell]_vars

\* ------------------------------------------------------------------------
\* Specification of the map generators: maps of GenSize, on which a blob of
\* radius 1 leaves the sea connected and one of radius 3 does not, so that
\* any attempt may pass and all of them may fail.  The attempts are made
\* one after the other until the function returns.
\* ------------------------------------------------------------------------
InitGenerate ==
    /\ Construct(NearMap, <<0, 0>>, <<3, 1>>, CARRIER_MAX_HP, SQUAD_MAX_HP,
                 {<<1, 1>>})
    /\ create
    /\ NewSession
    /\ args = None
    /\ ret = None
    /\ \E fn \in Generators, blobs \in 1 .. MaxBlobs :
          gen = Some([fn |-> fn, blobs |-> blobs, attempts |-> 0,
                      map |-> MapOf(GenSize[1], GenSize[2], {}),
                      pc |-> "loop"])

NextGenerate == GenAttempt \/ GenReturn

SpecGenerate ==
    InitGenerate /\ [][NextGenerate]_vars /\ WF_vars(NextGenerate)

\* ------------------------------------------------------------------------
\* Specification of validate_orders: a board on the map 24 cells wide, on
\* which cells lie beyond the range of a squadron, built by a caller with
\* the units as a game leaves them: each carrier afloat or sunk, each
\* squadron in its base, in the air or lost
\* ------------------------------------------------------------------------
ValidateCarriers(p) ==
    {[pos |-> p, hp |-> CARRIER_MAX_HP, target |-> p, state |-> "carrier"],
     [pos |-> invalid, hp |-> 0, target |-> NONE, state |-> "carrier"]}

ValidateSquadrons(p, t) ==
    {[pos |-> invalid, hp |-> SQUAD_MAX_HP, target |-> NONE,
      state |-> "base"],
     [pos |-> p, hp |-> SQUAD_MAX_HP, target |-> t, state |-> "outbound"],
     [pos |-> invalid, hp |-> 0, target |-> NONE, state |-> "lost"]}

ValidateTargets ==
    {NONE, <<2, 0>>, <<3, 0>>, <<22, 0>>, <<23, 0>>, <<1, 1>>, <<24, 0>>,
     <<0, 2>>}

InitValidate ==
    /\ hexmap = LongMap
    /\ \E ca \in ValidateCarriers(<<0, 0>>),
          cb \in ValidateCarriers(<<23, 1>>),
          sa \in ValidateSquadrons(<<1, 0>>, <<2, 0>>),
          sb \in ValidateSquadrons(<<22, 1>>, <<21, 1>>) :
          units = [id \in Ids |->
                     IF id = "CA" THEN ca ELSE IF id = "CB" THEN cb
                     ELSE IF id = "SA" THEN sa ELSE sb]
    /\ ticks = [id \in Ids |-> 0]
    /\ next_time = [id \in Ids |-> 0]
    /\ tick_queue = {}
    /\ turn = 1
    /\ result = NoResult
    /\ pc = "idle"
    /\ raised = FALSE
    /\ calls = 0
    /\ NewBoard
    /\ before = Snapshot
    /\ hindered = {}
    /\ create
    /\ NewSession
    /\ NoCall

NextValidate == ValidateOrders(ValidateTargets)

SpecValidate == InitValidate /\ [][NextValidate]_vars

\* ------------------------------------------------------------------------
\* Specification of a board whose players never order their carriers: the
\* orders of every call carry launch targets at most
\* ------------------------------------------------------------------------
DriftCarrierTargets == << {NONE}, {NONE} >>

NextDrift ==
    \/ TurnForward(DriftCarrierTargets)
    \/ TickPop
    \/ TurnForwardEnd(LaunchTargets)

SpecDrift == Init /\ [][NextDrift]_vars

\* ------------------------------------------------------------------------
\* Specification of a board built in the middle of an attack: squadron SA is
\* engaging next to carrier B, which one attack sinks or not; the player of
\* side B goes on ordering its carrier.
\* ------------------------------------------------------------------------
StrikeCarrierTargets == << {NONE}, {NONE, <<1, 1>>} >>

StrikeLaunchTargets == << {NONE}, {NONE} >>

\* GameBord.__init__ with the units_list us of the caller on map m; the
\* targets of the carriers in us are those __init__ draws
BuiltWith(m, us) ==
    /\ hexmap = m
    /\ units = us
    /\ ticks = [id \in Ids |-> 0]
    /\ next_time = [id \in Ids |-> 0]
    /\ tick_queue = {}
    /\ turn = 1
    /\ result = NoResult
    /\ pc = "idle"
    /\ raised = FALSE
    /\ calls = 0
    /\ NewBoard
    /\ before = Snapshot
    /\ hindered = {}

InitStrike ==
    /\ \E ta \in {<<0, 0>>, <<1, 0>>}, tb \in {<<3, 1>>},
          hb \in {ATTACK_BASE, CARRIER_MAX_HP} :
          BuiltWith(NearMap,
                    [id \in Ids |->
                       IF id = "CA"
                       THEN [pos |-> <<0, 0>>, hp |-> CARRIER_MAX_HP,
                             target |-> ta, state |-> "carrier"]
                       ELSE IF id = "CB"
                       THEN [pos |-> <<3, 1>>, hp |-> hb, target |-> tb,
                             state |-> "carrier"]
                       ELSE IF id = "SA"
                       THEN [pos |-> <<2, 1>>, hp |-> SQUAD_MAX_HP,
                             target |-> <<3, 1>>, state |-> "engaging"]
                       ELSE [pos |-> invalid, hp |-> SQUAD_MAX_HP,
                             target |-> NONE, state |-> "base"]])
    /\ create
    /\ NewSession
    /\ NoCall

NextStrike ==
    \/ TurnForward(StrikeCarrierTargets)
    \/ TickPop
    \/ TurnForwardEnd(StrikeLaunchTargets)

SpecStrike == InitStrike /\ [][NextStrike]_vars

\* ------------------------------------------------------------------------
\* Specification of a board built with squadron SB on its way home from
\* carrier A, at one end of a long map, to carrier B at the other end: it
\* flies out of the sight of carrier A within a turn
\* ------------------------------------------------------------------------
PassCarrierTargets == << {NONE}, {NONE} >>

PassLaunchTargets == << {NONE, <<7, 0>>}, {NONE} >>

InitPass ==
    /\ \E ta \in {<<0, 0>>, <<1, 1>>}, tb \in {<<7, 1>>, <<6, 1>>},
          st \in {"returning", "outbound"} :
          BuiltWith(FarMap,
                    [id \in Ids |->
                       IF id = "CA"
                       THEN [pos |-> <<0, 0>>, hp |-> CARRIER_MAX_HP,
                             target |-> ta, state |-> "carrier"]
                       ELSE IF id = "CB"
                       THEN [pos |-> <<7, 1>>, hp |-> CARRIER_MAX_HP,
                             target |-> tb, state |-> "carrier"]
                       ELSE IF id = "SB"
                       THEN [pos |-> <<1, 0>>, hp |-> SQUAD_MAX_HP,
                             target |-> <<7, 1>>, state |-> st]
                       ELSE [pos |-> invalid, hp |-> SQUAD_MAX_HP,
                             target |-> NONE, state |-> "base"]])
    /\ create
    /\ NewSession
    /\ NoCall

NextPass ==
    \/ TurnForward(PassCarrierTargets)
    \/ TickPop
    \/ TurnForwardEnd(PassLaunchTargets)

SpecPass == InitPass /\ [][NextPass]_vars

\* ------------------------------------------------------------------------
\* Specification of a board built with both squadrons in the air, one turn
\* apart: SA is engaging next to carrier B, SB is outbound next to carrier
\* A; the carriers have the hp one attack may take or the full hp
\* ------------------------------------------------------------------------
DuelCarrierTargets == << {NONE}, {NONE} >>

DuelLaunchTargets == << {NONE}, {NONE} >>

InitDuel ==
    /\ \E ha \in {ATTACK_BASE, CARRIER_MAX_HP},
          hb \in {ATTACK_BASE, CARRIER_MAX_HP} :
          BuiltWith(NearMap,
                    [id \in Ids |->
                       IF id = "CA"
                       THEN [pos |-> <<0, 0>>, hp |-> ha,
                             target |-> <<0, 0>>, state |-> "carrier"]
                       ELSE IF id = "CB"
                       THEN [pos |-> <<3, 1>>, hp |-> hb,
                             target |-> <<3, 1>>, state |-> "carrier"]
                       ELSE IF id = "SA"
                       THEN [pos |-> <<2, 1>>, hp |-> SQUAD_MAX_HP,
                             target |-> <<3, 1>>, state |-> "engaging"]
                       ELSE [pos |-> <<1, 0>>, hp |-> SQUAD_MAX_HP,
                             target |-> <<0, 0>>, state |-> "outbound"]])
    /\ create
    /\ NewSession
    /\ NoCall

NextDuel ==
    \/ TurnForward(DuelCarrierTargets)
    \/ TickPop
    \/ TurnForwardEnd(DuelLaunchTargets)

SpecDuel == InitDuel /\ [][NextDuel]_vars

\* ------------------------------------------------------------------------
\* Specification of the end of a match: both players are in, carrier B has
\* taken five hits, side A's squadron is about to attack it; the player of
\* side A leaves by request, the stream of the player of side B is closed,
\* players join, while orders are submitted
\* ------------------------------------------------------------------------
LobbyTokens == {"A", "B"}

LobbyOrders == << {NoOrder}, {NoOrder} >>

\* carrier B after three hits of 18 and two of 14
LobbyHp == CARRIER_MAX_HP - (3 * STRIKE_BASE + 2 * (STRIKE_BASE - 4))

\* the match in its third turn
LobbyMatch ==
    [_init_world(NewMatch, MatchMap) EXCEPT
        !.tokens = [sd \in Sides |-> TRUE],
        !.status = "active",
        !.turn = 3,
        !.st["CB"].hp = LobbyHp,
        !.st["SA"] = [pos |-> <<5, 1>>, hp |-> SQUAD_MAX_HP,
                      target |-> <<6, 1>>, state |-> "engaging"],
        !.last_pos_squadrons["SA"] = <<5, 1>>,
        !.intel["A"] = Some([seen |-> TRUE, pos |-> <<6, 1>>,
                             ttl |-> ttl_reset])]

InitLobby ==
    /\ Construct(NearMap, <<0, 0>>, <<3, 1>>, CARRIER_MAX_HP, SQUAD_MAX_HP,
                 {<<1, 1>>})
    /\ match = LobbyMatch
    /\ lock = Free
    /\ thr = [t \in Threads |-> Idle]
    /\ submits = 0
    /\ stores = [sd \in Sides |-> 0]
    /\ resolutions = 0
    /\ unsighted = [sd \in Sides |-> IF sd = "A" THEN Some(0) ELSE Never]
    /\ entry = match
    /\ observed = None
    /\ NewSession
    /\ NoCall

NextLobby ==
    \/ join
    \/ leave({"A", "X"})
    \/ unsubscribe({"B"})
    \/ /\ stores["A"] + stores["B"] < MaxSubmits
       /\ SubmitOrders(LobbyTokens, LobbyOrders)

SpecLobby == InitLobby /\ [][NextLobby]_vars

\* ------------------------------------------------------------------------
\* Specification of a launch ordered by a side whose carrier is under
\* attack: carrier A one cell off the first corner, carrier B with squadron
\* SA engaging next to it and its own squadron in the hangar
\* ------------------------------------------------------------------------
ScrambleCarrierTargets == << {NONE}, {NONE} >>

ScrambleLaunchTargets == << {NONE}, {NONE, <<0, 1>>, <<2, 0>>} >>

InitScramble ==
    /\ \E hb \in {ATTACK_BASE, CARRIER_MAX_HP} :
          BuiltWith(NearMap,
                    [id \in Ids |->
                       IF id = "CA"
                       THEN [pos |-> <<1, 0>>, hp |-> CARRIER_MAX_HP,
                             target |-> <<1, 0>>, state |-> "carrier"]
                       ELSE IF id = "CB"
                       THEN [pos |-> <<3, 1>>, hp |-> hb,
                             target |-> <<3, 1>>, state |-> "carrier"]
                       ELSE IF id = "SA"
                       THEN [pos |-> <<2, 1>>, hp |-> SQUAD_MAX_HP,
                             target |-> <<3, 1>>, state |-> "engaging"]
                       ELSE [pos |-> invalid, hp |-> SQUAD_MAX_HP,
                             target |-> NONE, state |-> "base"]])
    /\ create
    /\ NewSession
    /\ NoCall

NextScramble ==
    \/ TurnForward(ScrambleCarrierTargets)
    \/ TickPop
    \/ TurnForwardEnd(ScrambleLaunchTargets)

SpecScramble == InitScramble /\ [][NextScramble]_vars

\* ------------------------------------------------------------------------
\* Specification of a launch at the limit of the range: on the long map
\* carrier A stands one cell off the first corner and can sail either way
\* while its squadron is sent to the far end
\* ------------------------------------------------------------------------
RangeCarrierTargets == << {NONE, <<0, 0>>, <<2, 0>>}, {NONE} >>

RangeLaunchTargets == << {NONE, <<22, 0>>, <<23, 0>>}, {NONE} >>

InitRange ==
    /\ BuiltWith(LongMap,
                 [id \in Ids |->
                    IF id = "CA"
                    THEN [pos |-> <<1, 0>>, hp |-> CARRIER_MAX_HP,
                          target |-> <<1, 0>>, state |-> "carrier"]
                    ELSE IF id = "CB"
                    THEN [pos |-> <<23, 1>>, hp |-> CARRIER_MAX_HP,
                          target |-> <<23, 1>>, state |-> "carrier"]
                    ELSE [pos |-> invalid, hp |-> SQUAD_MAX_HP,
                          target |-> NONE, state |-> "base"]])
    /\ create
    /\ NewSession
    /\ NoCall

NextRange ==
    \/ TurnForward(RangeCarrierTargets)
    \/ TickPop
    \/ TurnForwardEnd(RangeLaunchTargets)

SpecRange == InitRange /\ [][NextRange]_vars

\* ------------------------------------------------------------------------
\* Specification of the map of a new match and of a new session: maps of
\* WorldSize, wide enough for land to lie between the sea around a carrier
\* and the rest of the sea.  The answers of the connectivity test to the
\* maps as they are made (connected) and as they are after the carving
\* (carved_connected) are computed once.
\* ------------------------------------------------------------------------
InitWorldMap ==
    /\ Construct(NearMap, <<0, 0>>, <<3, 1>>, CARRIER_MAX_HP, SQUAD_MAX_HP,
                 {<<1, 1>>})
    /\ create
    /\ NewSession
    /\ args = None
    /\ ret = None
    /\ \E fn \in {"_init_world", "create"} :
          gen = Some([fn |-> fn, tries |-> 0, ok |-> FALSE,
                      made |-> MapOf(WorldSize[1], WorldSize[2], {}),
                      map |-> MapOf(WorldSize[1], WorldSize[2], {}),
                      connected |->
                         {m \in WorldTable : _validate_sea_connectivity(m)},
                      carved_connected |->
                         {m \in WorldTable :
                             _validate_sea_connectivity(Carved(m))},
                      pc |-> "generate"])

NextWorldMap == InitWorld \/ CreateGenerate \/ CreateValidate

SpecWorldMap == InitWorldMap /\ [][NextWorldMap]_vars

TypeOK ==
    /\ hexmap \in Maps
    /\ turn \in 1 .. max_turn + MaxCalls
    /\ calls \in 0 .. MaxCalls
    /\ pc \in {"idle", "tick"}
    /\ result \in {NoResult, "A", "B", "draw"}
    /\ tick_queue \subseteq Ids
    /\ hindered \subseteq Ids
    /\ \A id \in Ids : units[id].hp \in 0 .. max_hp(id)

\* ------------------------------------------------------------------------
\* Properties of turn_forward
\* ------------------------------------------------------------------------
\* the tick loop spins: whichever queued units are popped next and in
\* whichever order, no unit moves, no step is counted and every popped unit
\* is queued again, so the queue never gets empty
Spinning ==
    /\ pc = "tick"
    /\ tick_queue # {}
    /\ \A sh \in Shuffles(tick_queue) :
          LET b == TickOnce(Board, sh)
          IN  b.us = units /\ b.tk = ticks /\ b.q = tick_queue

\* C3: one turn resolution always terminates: the tick loop empties its
\* queue after finitely many pops, also when a unit cannot step because all
\* its in-bounds neighbour cells are taken; so the loop never spins
C3_TickLoopTerminates == ~Spinning

\* C6: ships never enter land: after any sequence of turn resolutions every
\* active carrier stands on a sea cell, whatever blocks its preferred steps
C6_CarriersStayOnSea ==
    pc = "idle" =>
        \A c \in Carriers :
            is_active(units, c) => get(units[c].pos[1], units[c].pos[2]) = 0

\* C7: when turn_forward aborts with an error the board is as it was before
\* the call: no unit's position, hp, state or target has changed, the result
\* is unchanged and the turn counter is not advanced
C7_AbortLeavesBoard ==
    (pc = "idle" /\ raised) => Snapshot = before

\* C8: every launched squadron that is not destroyed is back in state base
\* after a bounded number of resolved turns, and no squadron ends a resolved
\* turn outbound with the invalid position.  A resolved turn that leaves a
\* live squadron in the air must therefore have changed the board: a turn
\* that changes nothing repeats for ever under the same orders, and the
\* squadron never returns.
C8_SquadronsReturn ==
    pc = "idle" =>
        \A sq \in Squadrons :
            /\ ~(units[sq].state = "outbound" /\ units[sq].pos = invalid)
            /\ (calls > 0 /\ ~raised /\ units[sq].hp > 0
                    /\ units[sq].state \in Airborne)
                  => units # before.units

\* C4: after every resolved turn a squadron's position is valid if and only
\* if its state is outbound, engaging or returning
C4_AirborneIffOnMap ==
    (pc = "idle" /\ ~raised) =>
        \A sq \in Squadrons :
            is_valid(units[sq].pos) <=> units[sq].state \in Airborne

\* C5: a squadron whose hp anti-air fire has brought to 0 ends the turn, and
\* every later turn, in state lost with the invalid position and no target
C5_ShotDownIsLost ==
    pc = "idle" =>
        \A sq \in Squadrons :
            units[sq].hp <= 0 =>
                /\ units[sq].state = "lost"
                /\ units[sq].pos = invalid
                /\ units[sq].target = NONE

\* C10: after a resolved turn with a carrier at hp <= 0 (the first such turn
\* in particular) the result is the opposing side, or draw when both
\* carriers are at hp <= 0; the result is None as long as both carriers and
\* both sides' squadrons have hp left and the turn ceiling is not passed
C10_ResultFollowsCarriers ==
    pc = "idle" =>
        LET ac == carrier_hp(units, "A")
            bc == carrier_hp(units, "B")
        IN  /\ (calls > 0 /\ ~raised) =>
                  /\ (ac <= 0 /\ bc <= 0) => result = "draw"
                  /\ (ac > 0 /\ bc <= 0) => result = "A"
                  /\ (ac <= 0 /\ bc > 0) => result = "B"
            /\ (/\ ac > 0 /\ bc > 0
                /\ squadron_hp(units, "A") > 0 /\ squadron_hp(units, "B") > 0
                /\ turn <= max_turn + 1)
                  => result = NoResult

\* a resolved turn in which both carriers, afloat before, were sunk
C10_Witness ==
    /\ pc = "idle" /\ ~raised /\ calls > 0
    /\ \A c \in Carriers : before.units[c].hp > 0 /\ units[c].hp <= 0
    /\ result = "draw"

\* C9: a carrier bound for a sea cell at hex distance d that meets no
\* obstruction (the sea route is as short as the hex distance, the carrier is
\* not held and every cell it prefers is free) comes min(s, d) cells closer
\* in every resolved turn: it is on the cell after ceil(d / s) turns, its
\* distance never grows, and once there it stays while the target stands
C9_CarrierReachesTarget ==
    (pc = "idle" /\ calls > 0 /\ ~raised) =>
        \A c \in Carriers :
            LET t  == units[c].target
                p0 == before.units[c].pos
                d0 == hex_distance(p0, t)
            IN  (/\ is_active(units, c)
                 /\ t # NONE
                 /\ c \notin hindered
                 /\ Field(t, FALSE)[p0] = d0)
                  => hex_distance(units[c].pos, t) = Max2(0, d0 - speed(c))

\* a carrier that was a full turn's run away from its target and is on it,
\* in the second turn of its run
C9_Witness ==
    /\ pc = "idle" /\ ~raised /\ calls > 1
    /\ \E c \in Carriers :
          /\ c \notin hindered
          /\ units[c].pos = units[c].target
          /\ before.units[c].target = units[c].target
          /\ hex_distance(before.units[c].pos, units[c].target) = speed(c)

\* ------------------------------------------------------------------------
\* Properties of submit_orders
\* ------------------------------------------------------------------------
\* a thread between its entry into the with block and its exit
InLock(t) == thr[t].pc \in {"store", "check", "resolve", "clear", "release"}

\* C1: under every interleaving of the submit_orders calls of the two sides
\* a turn is resolved at most once per pair of stored orders: the turns
\* resolved never outnumber the orders stored for either side, every thread
\* inside the with block is the one holder of the lock, each resolution
\* advances the turn by exactly 1, and the thread that resolved a turn
\* leaves the block with the orders of both sides cleared.
C1_ResolvedOncePerPair ==
    /\ resolutions <= stores["A"]
    /\ resolutions <= stores["B"]
    /\ match.turn = 1 + resolutions
    /\ \A t \in Threads : InLock(t) => lock = t
    /\ \A t \in Threads :
          (thr[t].pc = "release" /\ thr[t].resolved) =>
             (match.orders["A"] = None /\ match.orders["B"] = None)

\* a thread has resolved a turn and is about to leave the block while a
\* thread with orders of the other side waits for the lock
C1_Witness ==
    /\ resolutions >= 1
    /\ \E t, u \in Threads :
          /\ thr[t].pc = "release" /\ thr[t].resolved
          /\ thr[u].pc = "lock" /\ thr[u].side # thr[t].side
    /\ match.orders["A"] = None /\ match.orders["B"] = None

\* positions and hp of the units of the match
MatchUnits(m) == [id \in Ids |-> [pos |-> m.st[id].pos, hp |-> m.st[id].hp]]

\* C2: a step that changes the turn counter, a position or an hp of the
\* match starts in a state where the match is active and both sides have a
\* stored order; so while only one side has submitted, however often, the
\* turn, the positions and the hp stay as they are.
C2_ResolveNeedsBothOrders ==
    [][(match'.turn # match.turn \/ MatchUnits(match') # MatchUnits(match))
         => (/\ match.status = "active"
             /\ match.orders["A"] # None
             /\ match.orders["B"] # None)]_vars

\* side A has submitted twice in the active match, side B not yet, and the
\* match is still as it was created
C2_Witness ==
    /\ match.status = "active"
    /\ stores["A"] >= 2 /\ stores["B"] = 0
    /\ \A t \in Threads : thr[t].pc = "idle"
    /\ match.orders["A"] # None
    /\ match.turn = 1
    /\ MatchUnits(match) = MatchUnits(_init_world(NewMatch, MatchMap))

\* ------------------------------------------------------------------------
\* Properties of the termination check
\* ------------------------------------------------------------------------
\* no rule before the ceiling decides: both carriers afloat and neither
\* side alone has squadron hp left
Undecided(us) ==
    /\ carrier_hp(us, "A") > 0 /\ carrier_hp(us, "B") > 0
    /\ ~(squadron_hp(us, "A") > 0 /\ squadron_hp(us, "B") <= 0)
    /\ ~(squadron_hp(us, "B") > 0 /\ squadron_hp(us, "A") <= 0)

\* C11: a turn resolved with the turn counter above max_turn leaves a
\* result: when no earlier rule decides, the side whose carrier has more
\* hp, or draw when the carriers have the same hp
C11_CeilingDecides ==
    (pc = "idle" /\ calls > 0 /\ ~raised /\ before.turn > max_turn) =>
        /\ result # NoResult
        /\ Undecided(units) =>
              result = IF carrier_hp(units, "A") > carrier_hp(units, "B")
                       THEN "A"
                       ELSE IF carrier_hp(units, "B") > carrier_hp(units, "A")
                       THEN "B"
                       ELSE "draw"

\* the first turn resolved above the ceiling, undecided until then, goes to
\* side B by the hp of its carrier
C11_Witness ==
    /\ pc = "idle" /\ ~raised /\ calls > 0
    /\ before.turn = max_turn + 1 /\ before.result = NoResult
    /\ Undecided(units)
    /\ carrier_hp(units, "B") > carrier_hp(units, "A")
    /\ result = "B"

\* ------------------------------------------------------------------------
\* Properties of the intel memory of a session
\* ------------------------------------------------------------------------
\* C12: a marker renewed by a sighting has seen = true and ttl = 3; after
\* 1 and after 2 updates without a sighting it still has seen = true, and
\* with the 3rd it has seen = false and ttl = 0, where it stays until the
\* next sighting renews it
C12_MarkerFadesOnThirdTurn ==
    \A k \in Markers :
        /\ quiet[k] = Never => player_intel[k] = None
        /\ quiet[k] # Never =>
              /\ player_intel[k] # None
              /\ player_intel[k][1].ttl = Max2(0, MARKER_TTL - quiet[k][1])
              /\ player_intel[k][1].seen = (quiet[k][1] < MARKER_TTL)

\* the carrier marker with its 3rd update without a sighting, the squadron
\* marker with its 2nd
C12_Witness ==
    /\ quiet["carrier"] = Some(MARKER_TTL)
    /\ player_intel["carrier"] # None
    /\ ~player_intel["carrier"][1].seen
    /\ quiet["squadron"] = Some(MARKER_TTL - 1)
    /\ player_intel["squadron"] # None
    /\ player_intel["squadron"][1].seen

\* ------------------------------------------------------------------------
\* Properties of the state payload
\* ------------------------------------------------------------------------
\* the carrier of the other side as the payload shows it to a viewer
OpponentCarrier(m, viewer_side) ==
    IF viewer_side = "A" THEN _build_state_payload(m, viewer_side).b.carrier
                         ELSE _build_state_payload(m, viewer_side).a.carrier

\* C13: the payload shows a viewer the coordinates of the opponent carrier
\* exactly while the viewer's marker has ttl in 1 .. 3, that is after a
\* sighting and after 1 and 2 intel updates without a sighting, not before
\* the first sighting and not from the 3rd such update on; a viewer without
\* a side is shown neither carrier
C13_CarrierShownWhileMarkerLives ==
    /\ \A v \in Sides :
          /\ OpponentCarrier(match, v) # None
                <=> /\ match.intel[v] # None
                    /\ match.intel[v][1].ttl \in 1 .. SHOW_TURNS
          /\ OpponentCarrier(match, v) # None
                <=> (unsighted[v] # Never /\ unsighted[v][1] < ttl_reset)
    /\ _build_state_payload(match, "None").a.carrier = None
    /\ _build_state_payload(match, "None").b.carrier = None

\* side A, shown carrier B two updates after the sighting, is not shown
\* it after the 3rd update without a sighting
C13_Witness ==
    /\ unsighted["A"] = Some(ttl_reset)
    /\ match.intel["A"] # None
    /\ OpponentCarrier(match, "A") = None
    /\ OpponentCarrier(entry, "A") # None

\* C14: whenever the payload shows a viewer the coordinates of the opponent
\* carrier, they are the position the viewer's marker holds from the last
\* sighting, so that where the carrier went since then does not show
C14_ShownIsLastKnown ==
    \A v \in Sides :
        OpponentCarrier(match, v) # None =>
            OpponentCarrier(match, v)[1].pos = match.intel[v][1].pos

\* C16: a state() call made while a submission holds the lock returns the
\* payload of the match as it was when the lock was entered or as it is when
\* the lock is left, never one of a state in between
C16_ReadsSeeWholeTurns ==
    \A t \in Threads :
        (lock = t /\ thr[t].pc = "release" /\ observed # None) =>
            \/ observed[1].payload
                  = _build_state_payload(entry, observed[1].viewer)
            \/ observed[1].payload
                  = _build_state_payload(match, observed[1].viewer)

\* C17: in an active match a viewer of side v is told "you" exactly when no
\* orders of v are stored, "opponent" exactly when orders of v are stored
\* and none of the other side; in a match that is not active the field is
\* "none"; when a resolution is done both sides are told "you" again
C17_WaitingForFollowsOrders ==
    \A v \in Sides :
        /\ match.status = "active" =>
              /\ WaitingFor(match, v) = "you" <=> match.orders[v] = None
              /\ WaitingFor(match, v) = "opponent"
                    <=> /\ match.orders[v] # None
                        /\ match.orders[Other(v)] = None
        /\ match.status # "active" => WaitingFor(match, v) = "none"
        /\ \A t \in Threads :
              (thr[t].pc = "release" /\ thr[t].resolved
                 /\ match.status = "active")
                  => _build_state_payload(match, v).waiting_for = "you"

\* after a first resolution side A has sent its orders for the next turn
\* and side B has not
C17_Witness ==
    /\ resolutions >= 1
    /\ lock = Free
    /\ match.status = "active"
    /\ match.orders["A"] # None /\ match.orders["B"] = None
    /\ _build_state_payload(match, "A").waiting_for = "opponent"
    /\ _build_state_payload(match, "B").waiting_for = "you"

\* ------------------------------------------------------------------------
\* Properties of the movement of squadrons in a match
\* ------------------------------------------------------------------------
\* a unit of side me has the active unit u within its vision
Detected(m, me, u) ==
    \E own \in {CarrierOf(me), SquadronOf(me)} :
        /\ is_active(m.st, own) /\ is_active(m.st, u)
        /\ hex_distance(m.st[own].pos, m.st[u].pos) <= match_vision(own)

\* the match with the unit u on the cell q
Relocated(m, u, q) == [m EXCEPT !.st[u].pos = q]

\* the match when the squadron of side me has been launched as ordered
Launched(m, me) == _apply_launch_order(m, me, m.orders[me])

\* the cell the squadron of side me flies to first
FirstFlight(m, me) ==
    move_towards(Launched(m, me), me, SquadronOf(me),
                 Launched(m, me).st[SquadronOf(me)].target)

\* the enemy carrier stands unseen by side me, on its cell as well as on the
\* free sea cell q, also once the squadron of side me is in the air
HiddenEitherWay(m, me, q) ==
    /\ q \in CellsOf(m.map) /\ SeaAt(m.map, q)
    /\ \A id \in Ids : m.st[id].pos # q
    /\ ~Detected(Launched(m, me), me, CarrierOf(Other(me)))
    /\ ~Detected(Launched(Relocated(m, CarrierOf(Other(me)), q), me), me,
                 CarrierOf(Other(me)))

\* C15: the cell a squadron flies to does not change when an enemy carrier
\* that its side does not detect stands on another cell, equally out of
\* sight: the step depends on the terrain, on the units of its own side and
\* on the detected enemy units only
C15_MovementKeepsSecrets ==
    \A t \in Threads :
        thr[t].pc = "resolve" =>
            \A me \in Sides, q \in CellsOf(match.map) :
                (/\ order_target(match.orders[me], "carrier_target") = NONE
                 /\ order_target(match.orders[me], "launch_target") # NONE
                 /\ HiddenEitherWay(match, me, q))
                  => FirstFlight(match, me)
                       = FirstFlight(
                            Relocated(match, CarrierOf(Other(me)), q), me)

\* ------------------------------------------------------------------------
\* Properties of the functions
\* ------------------------------------------------------------------------
\* C18: the damage d a call returns satisfies 0 <= d <= base * 1.2, for
\* every hp of the attacker from 0 to the maximum, every base and every draw
C18_DamageWithinBounds ==
    ret # None => (0 <= ret[1] /\ 5 * ret[1] <= 6 * args[1].base)

\* C19: hex_distance is symmetric, zero exactly between equal positions,
\* and satisfies the triangle inequality
C19_HexDistanceIsMetric ==
    ret # None =>
        /\ ret[1].ab = ret[1].ba
        /\ ret[1].ab = 0 <=> args[1].a = args[1].b
        /\ ret[1].ac <= ret[1].ab + ret[1].bc

\* three different positions, b on a shortest way from a in an odd row
\* left of the origin to c in an even row
C19_Witness ==
    /\ ret # None
    /\ args[1].a[1] < 0 /\ args[1].a[2] % 2 = 1 /\ args[1].c[2] % 2 = 0
    /\ ret[1].ab > 0 /\ ret[1].bc > 0
    /\ ret[1].ac = ret[1].ab + ret[1].bc

\* C20: between two sea cells of a map find_path returns a path exactly
\* when the field of gradient_field for the goal has a finite distance at
\* the start
C20_PlannersAgree ==
    ret # None => (ret[1].path # None <=> ret[1].dist < INF)

\* two sea cells on either side of the wall: no path, no finite distance
C20_Witness ==
    /\ ret # None
    /\ args[1].map = SplitMap /\ ~args[1].ignore_land
    /\ args[1].start[1] < 2 /\ args[1].goal[1] > 2
    /\ ret[1].path = None
    /\ ret[1].dist = INF

\* ------------------------------------------------------------------------
\* Properties of the maps
\* ------------------------------------------------------------------------
\* the sea cells joined to the cells of S by steps between neighbouring
\* sea cells
RECURSIVE SeaReach(_, _)
SeaReach(m, S) ==
    LET more == S \cup {c \in SeaOf(m) : \E d \in S : c \in NbrSet(d)}
    IN  IF more = S THEN S ELSE SeaReach(m, more)

\* C21: validate_sea_connectivity returns true exactly when the map has a
\* sea cell and every sea cell is reached from every other one by steps
\* between neighbouring sea cells
C21_ConnectivityIsValidated ==
    ret # None =>
        ret[1] = (/\ SeaOf(args[1]) # {}
                  /\ \A a \in SeaOf(args[1]) :
                        SeaReach(args[1], {a}) = SeaOf(args[1]))

\* the wall of land across row 2 of the 5 by 5 map gives false
C21_Witness ==
    /\ args = Some(WallMap)
    /\ ret = Some(FALSE)

\* C22: a generator makes at most 60 attempts, makes no attempt after one
\* whose map passed the connectivity test, returns only with a map that
\* passed or after the 60th attempt, and does return
C22_GenerationTerminates ==
    /\ [](/\ gen[1].attempts <= MAX_ATTEMPTS
          /\ gen[1].pc = "loop" =>
                (gen[1].attempts = 0 \/ ~Passes(gen[1].fn, gen[1].map))
          /\ gen[1].pc = "returned" =>
                \/ Passes(gen[1].fn, gen[1].map)
                \/ gen[1].attempts = MAX_ATTEMPTS)
    /\ <>(gen[1].pc = "returned")

\* all 60 attempts failed and the function has returned, the map of the
\* last attempt in place
C22_Witness ==
    /\ gen # None
    /\ gen[1].pc = "returned"
    /\ gen[1].attempts = MAX_ATTEMPTS
    /\ ~Passes(gen[1].fn, gen[1].map)
    /\ gen[1].map # MapOf(GenSize[1], GenSize[2], {})

\* ------------------------------------------------------------------------
\* Properties of validate_orders
\* ------------------------------------------------------------------------
\* the carrier target t is acceptable for the side
CarrierTargetOk(side, t) ==
    /\ is_active(units, CarrierOf(side))
    /\ t \in SeaCells

\* the launch target t is acceptable for the side
LaunchTargetOk(side, t) ==
    /\ is_active(units, CarrierOf(side))
    /\ units[SquadronOf(side)].state = "base"
    /\ units[SquadronOf(side)].hp > 0
    /\ t \in SeaCells
    /\ hex_distance(units[CarrierOf(side)].pos, t) <= SQUADRON_RANGE

\* C23: validate_orders returns the empty list exactly when every order
\* given is acceptable (a carrier target: an active carrier of the side and
\* a sea cell of the map; a launch target: an active carrier, a squadron in
\* its base with hp > 0, a sea cell of the map, at a hex distance from the
\* carrier within the squadron's range), and leaves the board as it was
C23_OrdersValidated ==
    ret # None =>
        /\ ret[1] = <<>> <=>
              \/ args[1].orders = None
              \/ /\ args[1].orders[1].carrier_target # NONE =>
                        CarrierTargetOk(args[1].side,
                                        args[1].orders[1].carrier_target)
                 /\ args[1].orders[1].launch_target # NONE =>
                        LaunchTargetOk(args[1].side,
                                       args[1].orders[1].launch_target)
        /\ Snapshot = before
        /\ hexmap = LongMap

\* a launch to a cell exactly as far as the range reaches is accepted
C23_Witness ==
    /\ ret = Some(<<>>)
    /\ args[1].orders # None
    /\ args[1].orders[1].launch_target # NONE
    /\ hex_distance(units[CarrierOf(args[1].side)].pos,
                    args[1].orders[1].launch_target) = SQUADRON_RANGE

\* ------------------------------------------------------------------------
\* Properties of a board without carrier orders
\* ------------------------------------------------------------------------
\* C24: a carrier no move order was ever submitted for stays on its cell,
\* however many turns are resolved
C24_UnorderedCarrierStays ==
    [][\A c \in Carriers :
          is_active(units', c) => units'[c].pos = units[c].pos]_vars

\* ------------------------------------------------------------------------
\* Properties of the tick loop
\* ------------------------------------------------------------------------
\* the unit is taken from the queue by the next pass of the loop with a
\* target it is not on and with ticks left
DueToMove(id) ==
    /\ pc = "tick"
    /\ id \in tick_queue
    /\ next_time[id] = MinTime(Board)
    /\ units[id].target # NONE
    /\ units[id].pos # units[id].target
    /\ ticks[id] < speed(id)

\* C25: a unit that finds no cell to step to at one of its ticks (it was
\* due to move and the pass neither moved nor landed it) stays on its cell
\* and is not in the tick queue after that pass
C25_BlockedUnitLeavesQueue ==
    [][\A id \in Ids :
          (/\ DueToMove(id)
           /\ ticks'[id] = ticks[id]
           /\ units'[id].state = units[id].state)
             => /\ units'[id].pos = units[id].pos
                /\ id \notin tick_queue']_vars

\* ------------------------------------------------------------------------
\* Properties of the squadron lifecycle
\* ------------------------------------------------------------------------
\* the edges of the lifecycle of a squadron
LifecycleEdges ==
    {<<"base", "outbound">>, <<"outbound", "engaging">>,
     <<"outbound", "returning">>, <<"engaging", "returning">>,
     <<"engaging", "lost">>, <<"returning", "base">>}

\* C26: every single change of the state of a squadron made by a turn
\* resolution follows an edge of the lifecycle: base to outbound, outbound
\* to engaging or returning, engaging to returning or lost, returning to
\* base; in particular no squadron leaves the state lost
C26_ChangesFollowLifecycle ==
    \A c \in changes : <<c[2], c[3]>> \in LifecycleEdges

\* C27: a squadron that is engaging when a turn resolution starts is not
\* engaging when the resolution has ended, and a squadron attacks a carrier
\* at most once between its launch and its return or loss
C27_EngagingLastsOnePass ==
    /\ (pc = "idle" /\ calls > 0 /\ ~raised) =>
          \A s \in Squadrons :
             before.units[s].state = "engaging" =>
                units[s].state # "engaging"
    /\ \A s \in Squadrons : strikes[s] <= 1

\* a squadron that started the turn engaging has attacked once, has
\* survived and is returning at the end of the turn
C27_Witness ==
    /\ pc = "idle" /\ calls > 0 /\ ~raised
    /\ \E s \in Squadrons :
          /\ before.units[s].state = "engaging"
          /\ units[s].state = "returning"
          /\ units[s].hp > 0
          /\ strikes[s] = 1

\* ------------------------------------------------------------------------
\* Properties of the carriers
\* ------------------------------------------------------------------------
\* C28: after every resolved turn a carrier has no hp left if and only if
\* its position is the invalid one, a carrier without hp has no target, and
\* a carrier with hp is on the map
C28_SunkCarrierIsCleared ==
    (pc = "idle" /\ calls > 0 /\ ~raised) =>
       \A c \in Carriers :
          /\ units[c].hp <= 0 <=> units[c].pos = invalid
          /\ units[c].hp <= 0 => units[c].target = NONE
          /\ units[c].hp > 0 => in_bounds(units[c].pos)

\* ------------------------------------------------------------------------
\* Properties of the reports
\* ------------------------------------------------------------------------
\* the position of the unit at the earliest (latest = FALSE) or the latest
\* pass of this turn after which an enemy unit saw it
SeenAt(e, latest) ==
    LET s == CHOOSE x \in sightings[e] :
                \A y \in sightings[e] :
                   IF latest THEN x[1] >= y[1] ELSE x[1] <= y[1]
    IN  s[2]

\* C29: after a resolved turn an enemy unit is in the report of a side if
\* and only if after some pass of the tick loop of that turn it was active
\* and within the vision of an active unit of the side, and it is active at
\* the end of the turn; the path reported runs from the cell it was on at
\* the earliest such pass to the cell it was on at the latest
C29_ReportsFollowSightings ==
    (pc = "idle" /\ calls > 0 /\ ~raised) =>
       \A sd \in Sides, e \in Ids :
          LET path == reports[sd].intel[e]
          IN  /\ path # None <=> /\ side_of(e) # sd
                                 /\ sightings[e] # {}
                                 /\ is_active(units, e)
              /\ path # None => /\ path[1].p1 = SeenAt(e, FALSE)
                                /\ path[1].p2 = SeenAt(e, TRUE)
                                /\ path[1].turn = reports[sd].turn

\* a unit is reported on two cells and ends the turn out of the sight of
\* every enemy unit
C29_Witness ==
    /\ pc = "idle" /\ calls > 0 /\ ~raised
    /\ \E sd \in Sides, e \in Ids :
          /\ reports[sd].intel[e] # None
          /\ reports[sd].intel[e][1].p1 # reports[sd].intel[e][1].p2
          /\ \A u \in Ids :
                side_of(u) = sd => ~can_see_enemy(units, u, e)

\* C30: the path of an enemy unit sighted in turn t stays in the reports of
\* the side for the turns t + 1 to t + 3 in which the unit is not sighted
\* again, and no report holds a path older than three turns
C30_IntelKeptThreeTurns ==
    (pc = "idle" /\ calls > 0 /\ ~raised) =>
       \A sd \in Sides, e \in Ids :
          LET old == before.reports[sd].intel[e]
              new == reports[sd].intel[e]
          IN  /\ (/\ old # None
                  /\ sightings[e] = {}
                  /\ reports[sd].turn <= old[1].turn + 3) => new = old
              /\ new # None => new[1].turn >= reports[sd].turn - 3

\* ------------------------------------------------------------------------
\* Properties of the tick queue
\* ------------------------------------------------------------------------
\* C31: in a turn a unit of speed s is taken from the tick queue only at the
\* virtual times k * int(1000 / s) with k in 1 .. s, the passes of the tick
\* loop run at strictly increasing virtual times, and a unit changes its
\* cell at most s times, each change counted as one of its ticks
C31_TicksOnSchedule ==
    [][(pc = "tick" /\ tick_queue # {}) =>
          /\ \A id \in tick_queue :
                next_time[id] = MinTime(Board) =>
                   \E k \in 1 .. speed(id) :
                      next_time[id] = k * (1000 \div speed(id))
          /\ (pc' = "tick" /\ tick_queue' # {}) =>
                MinTime(Board)' > MinTime(Board)
          /\ \A id \in Ids :
                /\ ticks'[id] <= speed(id)
                /\ (/\ in_bounds(units[id].pos)
                    /\ in_bounds(units'[id].pos)
                    /\ units'[id].pos # units[id].pos) =>
                      ticks'[id] = ticks[id] + 1]_vars

\* ------------------------------------------------------------------------
\* Properties of gradient_field
\* ------------------------------------------------------------------------
\* the cells of map m a path may run over
Open(m, ignore_land) ==
    {c \in CellsOf(m) : ignore_land \/ m[c[2] + 1][c[1] + 1] = 0}

\* dist is the length of the shortest path to the goal over cells of open,
\* a step leading to a cell at hex distance 1: the goal has 0, every other
\* cell of open one more than the least of the cells one step away, and
\* INF when none of them has a path
ShortestTo(dist, open, goal) ==
    \A c \in DOMAIN dist :
       LET near == {dist[n] : n \in {o \in open : hex_distance(o, c) = 1}}
                      \ {INF}
       IN  dist[c] = IF c \notin open \/ goal \notin open THEN INF
                     ELSE IF c = goal THEN 0
                     ELSE IF near = {} THEN INF
                     ELSE 1 + CHOOSE d \in near : \A e \in near : d <= e

\* C32: gradient_field(goal) holds for every cell the length of the
\* shortest path of steps between neighbouring passable cells from the cell
\* to the goal, INF for land that is not ignored and for cells without a
\* path; when every cell is passable it holds hex_distance(cell, goal)
C32_FieldIsShortestPath ==
    ret # None =>
       LET a    == args[1]
           open == Open(a.map, a.ignore_land)
       IN  /\ DOMAIN ret[1] = CellsOf(a.map)
           /\ ShortestTo(ret[1], open, a.goal)
           /\ open = CellsOf(a.map) =>
                 \A c \in CellsOf(a.map) :
                    ret[1][c] = hex_distance(c, a.goal)

\* the map of the test with one cell of land: the land has INF, and the
\* sea cell behind it is reached around the land, in three steps
C32_Witness ==
    /\ args = Some([map |-> ObstacleMap, goal |-> <<5, 2>>,
                    ignore_land |-> FALSE])
    /\ ret # None
    /\ ret[1][<<4, 2>>] = INF
    /\ ret[1][<<3, 2>>] = 3

\* ------------------------------------------------------------------------
\* Properties of the memory of the enemy
\* ------------------------------------------------------------------------
\* C33: the enemy's memory of the player carrier fades like a marker: n
\* session steps without a sighting after the step of the last sighting
\* leave it with ttl 3 - n (0 from the third on), seen while ttl is left
C33_MemoryFades ==
    (enemy_memory # None /\ unseen # Never /\ unseen[1] >= 1) =>
       /\ enemy_memory[1].ttl = Max2(0, MARKER_TTL - unseen[1])
       /\ enemy_memory[1].seen = (enemy_memory[1].ttl > 0)

\* ------------------------------------------------------------------------
\* Properties of _find_path_hex
\* ------------------------------------------------------------------------
\* the cells joined to the cells of S by steps between neighbours in ok
RECURSIVE Reach(_, _)
Reach(ok, S) ==
    LET more == S \cup {c \in ok : \E d \in S : hex_distance(c, d) = 1}
    IN  IF more = S THEN S ELSE Reach(ok, more)

\* C34: the cell a unit is on is no obstacle to the unit itself:
\* _find_path_hex called from the cell of a carrier or squadron with the id
\* of that unit as ignore_id returns a path whenever the terrain of the
\* cell can be passed, no other unit is on it and the goal can be reached
\* from it over passable cells
C34_OwnCellIsNoObstacle ==
    ret # None =>
       LET a     == args[1]
           start == a.st[a.unit].pos
           land  == {c \in CellsOf(a.map) : ~SeaAt(a.map, c)}
           taken == {a.st[u].pos : u \in Ids \ {a.unit}}
           ok    == {c \in CellsOf(a.map) :
                       /\ a.pass_islands \/ c \notin land
                       /\ c = start
                            \/ ~_is_occupied(a.st, a.me, c, a.unit)}
       IN  (/\ a.pass_islands \/ start \notin land
            /\ start \notin taken
            /\ a.goal \in Reach(ok, {start})) => ret[1] # None

C36_ResultIsTerminal ==
    [][result # NoResult => result' = result]_vars

\* ------------------------------------------------------------------------
\* Properties of the status of a match
\* ------------------------------------------------------------------------
\* C37: the status over is absorbing: once the match is over, no join,
\* leave, unsubscribe or submit_orders makes it active or waiting again,
\* and no further turn is resolved
C37_OverIsAbsorbing ==
    [][match.status = "over" =>
          /\ match'.status = "over"
          /\ match'.turn = match.turn
          /\ resolutions' = resolutions]_vars

\* ------------------------------------------------------------------------
\* Properties of the launch
\* ------------------------------------------------------------------------
\* C38: whenever turn_forward launches a squadron, the carrier of its side
\* is active at that moment and the squadron is put on a cell of the map at
\* hex distance 1 from that carrier; a side whose carrier was sunk earlier
\* in the turn launches nothing
C38_LaunchNextToActiveCarrier ==
    [][\A sq \in Squadrons :
          (units[sq].state = "base" /\ units'[sq].state = "outbound") =>
             /\ units'[CarrierOf(side_of(sq))].hp > 0
             /\ in_bounds(units'[CarrierOf(side_of(sq))].pos)
             /\ in_bounds(units'[sq].pos)
             /\ hex_distance(units'[sq].pos,
                             units'[CarrierOf(side_of(sq))].pos) = 1]_vars

\* C39: for orders that validate_orders accepts on the board as it is when
\* turn_forward is called, every squadron launched has its target within
\* its range of the cell on which its carrier stands after the tick loop
C39_LaunchWithinRange ==
    [][\A sq \in Squadrons :
          (/\ units[sq].state = "base"
           /\ units'[sq].state = "outbound"
           /\ validate_orders(before.units, side_of(sq),
                              Some([NoOrder EXCEPT
                                      !.launch_target = units'[sq].target]))
                 = <<>>) =>
             hex_distance(units'[CarrierOf(side_of(sq))].pos,
                          units'[sq].target) <= fuel(sq)]_vars

\* ------------------------------------------------------------------------
\* Properties of the map of a match and of a session
\* ------------------------------------------------------------------------
\* C40: the map of a created match or session has all its sea connected
\* whenever the generation of the map succeeded: the sea carved within 2
\* cells of the two carriers leaves no sea cell out of reach of the others
C40_CarvedSeaIsConnected ==
    (gen # None /\ gen[1].pc = "done" /\ gen[1].ok) =>
       \A c \in SeaOf(gen[1].map) :
          gradient_field(gen[1].map, Spawns(gen[1].map)[1], FALSE)[c] < INF

====
